---------------------------- MODULE Spec2Model ----------------------------
(***************************************************************************)
(* A model of LazySusan (src/lazysusan/__init__.py) and of its dj plugins  *)
(* (src/lazysusan/plugins/botdj.py).                                       *)
(*                                                                         *)
(* Several specifications share the module; each leaves the variables of  *)
(* the other parts at their initial values.                                *)
(*   SpecSession   the membership handlers of the session                  *)
(*   SpecPlugins   load_plugin / _load_command_plugin                      *)
(*   SpecMatch     the pure function best_match                            *)
(*   SpecClear, SpecAdd, SpecManage, SpecLoad, SpecUpdate, SpecShuffle     *)
(*                 the Playlist plugin's commands and callback chains,     *)
(*                 one command's chain at a time                           *)
(*   SpecDj        the Dj plugin's events                                  *)
(*   SpecDjCmd     the Dj plugin's commands                                *)
(*   SpecDispatch  the dispatch of chat texts to the command table         *)
(*                                                                         *)
(* Strings that the code takes apart (names matched by best_match) are     *)
(* sequences of one-character strings; other strings are TLA+ strings.     *)
(***************************************************************************)
EXTENDS Integers, Sequences, FiniteSets, TLC

VARIABLES
    \* ---- LazySusan session (src/lazysusan/__init__.py:71-76)
    dj_ids, listener_ids, moderator_ids, max_djs, username,
    event,          \* the event the last handler was called with (history)
    fault,          \* TRUE iff the last handler raised (display_exceptions)
    \* ---- command table and plugins (src/lazysusan/__init__.py:67-73)
    commands, loaded_plugins,
    nloads,         \* number of load_plugin calls so far (instance numbering)
    last_load,      \* the plugin name the last load_plugin was called with
    \* ---- best_match (src/lazysusan/plugins/botdj.py:9-23)
    selection, options, result,
    \* ---- Playlist plugin (src/lazysusan/plugins/botdj.py:164-169)
    playlist,       \* self.playlist: the active playlist's name, or NoName
    playlists,      \* self.playlists: name -> the set object of its mirror
    heap,           \* set object -> the song ids it holds
    room_list,      \* self.room_list: the room shortcuts learnt so far
    currentSongId,  \* bot.api.currentSongId
    pending,        \* the requests awaiting their response, with callbacks
    log,            \* per chain: its command, requests, responses, replies
    \* ---- Dj plugin (src/lazysusan/plugins/botdj.py:59-60) and chat
    end_song_step_down, should_auto_skip,
    currentDjId,    \* bot.api.currentDjId
    msg,            \* the chat event the last dispatch was called with (history)
    invoked,        \* the handler calls of the last dispatch (history)
    out             \* what the last Dj or chat handler sent (history)

sessVars  == <<dj_ids, listener_ids, moderator_ids, max_djs, username, event, fault>>
plugVars  == <<commands, loaded_plugins, nloads, last_load>>
matchVars == <<selection, options, result>>
plVars    == <<playlist, playlists, heap, room_list, currentSongId, pending, log>>
djVars    == <<end_song_step_down, should_auto_skip, currentDjId, msg, invoked, out>>
vars == <<sessVars, plugVars, matchVars, plVars, djVars>>
otherThanSession == <<plugVars, matchVars, plVars, djVars>>
otherThanPlugins == <<sessVars, matchVars, plVars, djVars>>
otherThanMatch == <<sessVars, plugVars, plVars, djVars>>
otherThanPlaylist == <<plugVars, matchVars, djVars>>
otherThanDj == <<plugVars, matchVars, plVars>>

-----------------------------------------------------------------------------
(* Generic helpers *)

Range(s) == {s[i] : i \in 1..Len(s)}

\* All sequences over S of length at most n.
SeqsUpTo(S, n) == UNION {[1..k -> S] : k \in 0..n}

\* All sequences over S without repetition, of length at most n.
DistinctSeqsUpTo(S, n) ==
    {s \in SeqsUpTo(S, n) : \A i, j \in 1..Len(s) : i # j => s[i] # s[j]}

-----------------------------------------------------------------------------
(* Part 1: the session's membership state *)

\* self.max_djs = None before the first roomChanged.
NoneVal == -1

BotId == "bot"
\* bot.api.currentDjId when nobody plays; the chat event before any.
NoDj == ""
NoMsg == [command |-> "", senderid |-> "", name |-> "", text |-> <<>>]
Users == {"bot", "u1", "u2"}
\* The users the moderator events and snapshots name.
ModUsers == {"u1"}
BotName == "susan"

\* Bounds of the event inputs.
MaxEventUsers == 2
MaxTable == 3

UserLists == SeqsUpTo(Users, MaxEventUsers)

NoEvent ==
    [command |-> "none", user |-> <<>>, userid |-> "", djs |-> {},
     users |-> {}, moderator_id |-> {}, max_djs |-> NoneVal, name |-> ""]

UserEvent(cmd, us) == [NoEvent EXCEPT !.command = cmd, !.user = us]
ModEvent(cmd, u) == [NoEvent EXCEPT !.command = cmd, !.userid = u]
RoomChangedEvent(djs, users, mods, m) ==
    [NoEvent EXCEPT !.command = "roomChanged", !.djs = djs, !.users = users,
                    !.moderator_id = mods, !.max_djs = m]

\* for user in data['user']: s.add(user['userid'])
RECURSIVE AddEach(_, _)
AddEach(S, us) ==
    IF us = <<>> THEN S ELSE AddEach(S \cup {Head(us)}, Tail(us))

\* for user in data['user']: s.remove(user['userid'])
\* set.remove raises KeyError on a missing member: the loop stops there and
\* the removals already made stay.
RECURSIVE RemoveEach(_, _)
RemoveEach(S, us) ==
    IF us = <<>> THEN [set |-> S, raised |-> FALSE]
    ELSE IF Head(us) \notin S THEN [set |-> S, raised |-> TRUE]
    ELSE RemoveEach(S \ {Head(us)}, Tail(us))

\* A variant that stops applying events once a handler has raised.
handle_add_dj_halted(data) ==
    /\ dj_ids' = IF fault THEN dj_ids ELSE AddEach(dj_ids, data.user)
    /\ fault' = fault
    /\ event' = data
    /\ UNCHANGED <<listener_ids, moderator_ids, max_djs, username>>

handle_add_dj(data) ==
    /\ dj_ids' = AddEach(dj_ids, data.user)
    /\ fault' = FALSE
    /\ event' = data
    /\ UNCHANGED <<listener_ids, moderator_ids, max_djs, username>>

handle_remove_dj(data) ==
    LET r == RemoveEach(dj_ids, data.user) IN
    /\ dj_ids' = r.set
    /\ fault' = r.raised
    /\ event' = data
    /\ UNCHANGED <<listener_ids, moderator_ids, max_djs, username>>

handle_user_join(data) ==
    /\ listener_ids' = AddEach(listener_ids, data.user)
    /\ fault' = FALSE
    /\ event' = data
    /\ UNCHANGED <<dj_ids, moderator_ids, max_djs, username>>

\* A variant that also takes the users who leave the room off the table.
handle_user_leave_tidy(data) ==
    LET r == RemoveEach(listener_ids, data.user) IN
    /\ listener_ids' = r.set
    /\ dj_ids' = dj_ids \cap (r.set \cup (dj_ids \ listener_ids))
    /\ fault' = r.raised
    /\ event' = data
    /\ UNCHANGED <<moderator_ids, max_djs, username>>

handle_user_leave(data) ==
    LET r == RemoveEach(listener_ids, data.user) IN
    /\ listener_ids' = r.set
    /\ fault' = r.raised
    /\ event' = data
    /\ UNCHANGED <<dj_ids, moderator_ids, max_djs, username>>

handle_add_moderator(data) ==
    /\ moderator_ids' = moderator_ids \cup {data.userid}
    /\ fault' = FALSE
    /\ event' = data
    /\ UNCHANGED <<dj_ids, listener_ids, max_djs, username>>

handle_remove_moderator(data) ==
    LET r == RemoveEach(moderator_ids, <<data.userid>>) IN
    /\ moderator_ids' = r.set
    /\ fault' = r.raised
    /\ event' = data
    /\ UNCHANGED <<dj_ids, listener_ids, max_djs, username>>

handle_room_change_union(data) ==
    /\ dj_ids' = dj_ids \cup data.djs
    /\ listener_ids' = data.users
    /\ max_djs' = data.max_djs
    /\ moderator_ids' = data.moderator_id
    /\ fault' = FALSE
    /\ event' = data
    /\ UNCHANGED username

handle_room_change(data) ==
    /\ dj_ids' = data.djs
    /\ listener_ids' = data.users
    /\ max_djs' = data.max_djs
    /\ moderator_ids' = data.moderator_id
    /\ fault' = FALSE
    /\ event' = data
    /\ UNCHANGED username

\* handle_ready asks for the user info; set_username is its callback.
set_username(data) ==
    /\ username' = data.name
    /\ fault' = FALSE
    /\ event' = data
    /\ UNCHANGED <<dj_ids, listener_ids, moderator_ids, max_djs>>

\* The events the room service delivers.  A roomChanged snapshot lists as djs
\* only users that are in the room.
AddDj ==
    /\ \E us \in UserLists : handle_add_dj(UserEvent("add_dj", us))
    /\ UNCHANGED otherThanSession
RemDj ==
    /\ \E us \in UserLists : handle_remove_dj(UserEvent("rem_dj", us))
    /\ UNCHANGED otherThanSession
Registered ==
    /\ \E us \in UserLists : handle_user_join(UserEvent("registered", us))
    /\ UNCHANGED otherThanSession
Deregistered ==
    /\ \E us \in UserLists : handle_user_leave(UserEvent("deregistered", us))
    /\ UNCHANGED otherThanSession
NewModerator ==
    /\ \E u \in ModUsers : handle_add_moderator(ModEvent("new_moderator", u))
    /\ UNCHANGED otherThanSession
RemModerator ==
    /\ \E u \in ModUsers : handle_remove_moderator(ModEvent("rem_moderator", u))
    /\ UNCHANGED otherThanSession
RoomChanged ==
    /\ \E us \in SUBSET Users, mods \in SUBSET ModUsers, m \in 1..MaxTable :
         \E djs \in SUBSET us :
            handle_room_change(RoomChangedEvent(djs, us, mods, m))
    /\ UNCHANGED otherThanSession
Ready ==
    /\ set_username([NoEvent EXCEPT !.command = "userInfo", !.name = BotName])
    /\ UNCHANGED otherThanSession

SessionNext ==
    \/ AddDj \/ RemDj \/ Registered \/ Deregistered
    \/ NewModerator \/ RemModerator \/ RoomChanged \/ Ready

-----------------------------------------------------------------------------
(* Part 2: the command table and load_plugin *)

Reserved == {"/about", "/commands", "/help", "/reload"}

\* The bot's own handlers are bound methods of the LazySusan object.
BotHandler(k) == [plugin |-> "lazysusan", inst |-> 0, func |-> k]

DjCommands ==
    [k \in {"/autoskip", "/djdown", "/djup", "/skip"} |->
        CASE k = "/autoskip" -> "auto_skip"
          [] k = "/djdown" -> "stop"
          [] k = "/djup" -> "play"
          [] k = "/skip" -> "skip_song"]

PlaylistCommands ==
    [k \in {"/pladd", "/plavailable", "/playlists", "/plclear", "/plcreate",
            "/pldelete", "/pllist", "/plload", "/plshuffle", "/plskip",
            "/plswitch", "/plupdate"} |->
        CASE k = "/pladd" -> "add"
          [] k = "/plavailable" -> "available"
          [] k = "/playlists" -> "list_playlists"
          [] k = "/plclear" -> "clear"
          [] k = "/plcreate" -> "create"
          [] k = "/pldelete" -> "delete"
          [] k = "/pllist" -> "list"
          [] k = "/plload" -> "load"
          [] k = "/plshuffle" -> "shuffle"
          [] k = "/plskip" -> "skip_next"
          [] k = "/plswitch" -> "switch"
          [] k = "/plupdate" -> "update_playlist"]

\* The plugin classes a configuration can name.  Dj and Playlist are the
\* bundled ones; the others stand for plugins of the plugin directory: one
\* sharing a key with Dj, one using a reserved key, one without collision
\* and one that is not a CommandPlugin.
PluginNames == {"Dj", "Playlist", "Skipper", "Helper", "Faq", "Logger"}

IsCommandPlugin(p) == p # "Logger"

COMMANDS(p) ==
    CASE p = "Dj" -> DjCommands
      [] p = "Playlist" -> PlaylistCommands
      [] p = "Skipper" -> [k \in {"/skip", "/next"} |-> "go"]
      [] p = "Helper" -> [k \in {"/help", "/faq"} |-> "answer"]
      [] p = "Faq" -> [k \in {"/faq"} |-> "answer"]
      [] OTHER -> [k \in {} |-> ""]

MaxLoads == 4


\* f updated with g (dict.update)
Update(f, g) ==
    [k \in DOMAIN f \cup DOMAIN g |-> IF k \in DOMAIN g THEN g[k] ELSE f[k]]

\* A variant that binds what it can before it reports the collision.
load_command_plugin_eager(cmds, p, inst) ==
    LET to_add == [k \in DOMAIN COMMANDS(p) \ DOMAIN cmds |->
                      [plugin |-> p, inst |-> inst, func |-> COMMANDS(p)[k]]]
    IN [ok |-> DOMAIN COMMANDS(p) \cap DOMAIN cmds = {},
        commands |-> Update(cmds, to_add)]

\* _load_command_plugin: the value returned and the table it leaves.
load_command_plugin(cmds, p, inst) ==
    LET to_add == [k \in DOMAIN COMMANDS(p) |->
                      [plugin |-> p, inst |-> inst, func |-> COMMANDS(p)[k]]]
    IN IF \E k \in DOMAIN COMMANDS(p) : k \in DOMAIN cmds
       THEN [ok |-> FALSE, commands |-> cmds]
       ELSE [ok |-> TRUE, commands |-> Update(cmds, to_add)]

\* load_plugin, for a plugin_name whose module and class are found.
load_plugin(p) ==
    /\ nloads < MaxLoads
    /\ nloads' = nloads + 1
    /\ last_load' = p
    /\ IF IsCommandPlugin(p)
       THEN LET r == load_command_plugin(commands, p, nloads + 1) IN
            /\ commands' = r.commands
            /\ loaded_plugins' =
                 IF r.ok THEN Update(loaded_plugins, [q \in {p} |-> nloads + 1])
                 ELSE loaded_plugins
       ELSE /\ commands' = commands
            /\ loaded_plugins' = Update(loaded_plugins, [q \in {p} |-> nloads + 1])

LoadPlugin ==
    /\ \E p \in PluginNames : load_plugin(p)
    /\ UNCHANGED otherThanPlugins

PluginsNext == LoadPlugin

-----------------------------------------------------------------------------
(* Part 3: best_match *)

Rock == <<"r", "o", "c", "k">>
Rockabilly == <<"r", "o", "c", "k", "a", "b", "i", "l", "l", "y">>
Pop == <<"p", "o", "p">>

\* x.startswith(sel)
StartsWith(x, sel) ==
    /\ Len(sel) <= Len(x)
    /\ SubSeq(x, 1, Len(sel)) = sel

\* sel in x (substring)
Contains(x, sel) ==
    \E i \in 0..(Len(x) - Len(sel)) : SubSeq(x, i + 1, i + Len(sel)) = sel

Single(x) == [kind |-> "name", name |-> x, list |-> <<>>]
List(l) == [kind |-> "list", name |-> <<>>, list |-> l]
Unset == [kind |-> "unset", name |-> <<>>, list |-> <<>>]

\* A variant without the exact-match test.
best_match_noexact(sel, opts) ==
    LET possibles == SelectSeq(opts, LAMBDA x : StartsWith(x, sel)) IN
    IF possibles = <<>>
    THEN List(SelectSeq(opts, LAMBDA x : Contains(x, sel)))
    ELSE IF Len(possibles) = 1 THEN Single(possibles[1])
    ELSE List(possibles)

best_match(sel, opts) ==
    LET possibles == SelectSeq(opts, LAMBDA x : StartsWith(x, sel)) IN
    IF sel \in Range(opts) THEN Single(sel)
    ELSE IF possibles = <<>>
    THEN List(SelectSeq(opts, LAMBDA x : Contains(x, sel)))
    ELSE IF Len(possibles) = 1 THEN Single(possibles[1])
    ELSE List(possibles)

\* Bounds of the generated inputs.
MaxLen == 2
MaxOptions == 2

Alphabet == {"a", "b"}
GenStrings == SeqsUpTo(Alphabet, MaxLen)
\* The candidates of the spec's example, in every order a dict may give.
ExampleOptions == DistinctSeqsUpTo({Rock, Rockabilly, Pop}, 3)
ExampleSelections ==
    {SubSeq(Rockabilly, i, j) : i \in 1..10, j \in 0..10} \cup {Pop, <<"o">>}

MatchInputs ==
    (GenStrings \X DistinctSeqsUpTo(GenStrings, MaxOptions))
        \cup (ExampleSelections \X ExampleOptions)

Match ==
    /\ result = Unset
    /\ result' = best_match(selection, options)
    /\ UNCHANGED <<selection, options>>
    /\ UNCHANGED otherThanMatch

MatchNext == Match

-----------------------------------------------------------------------------
(* Part 4: the Playlist plugin *)

\* self.playlist = None; bot.api.currentSongId unset
NoName == <<>>
NoSong == "none"

Default == <<"d", "e", "f", "a", "u", "l", "t">>
LocalPrefix == <<"l", "o", "c", "a", "l", "_">>
Mix == <<"m", "i", "x">>
LocalMix == LocalPrefix \o Mix
Dup == <<"d", "u", "p">>
LocalDup == LocalPrefix \o Dup

\* The playlist names of the room service and the room shortcuts.
PNames == {Default, Rock, LocalMix}
Rooms == {Rock}
Songs == {"A", "B", "C"}

\* Chains in progress at once; slot 0 is the initialisation chain, which is
\* not logged.
MaxChains == 2
Slots == 0..MaxChains

\* The keys self.playlists can have, in a fixed order.
KeySeq == <<NoName, Default, Rock, LocalMix, LocalDup>>
KeyIdx(n) == CHOOSE i \in 1..Len(KeySeq) : KeySeq[i] = n

ObjIds == 1..(2 * Len(KeySeq) + MaxChains + 2)

\* The listings and the songs playing that the room service is taken to send.
Listings == {{}, {"B"}, {"A", "B", "C"}}
PlayedSongs == {"A"}

\* The chat contexts commands come from: data['command'], data['senderid'].
Ctxs ==
    {[command |-> "speak", senderid |-> "u1"],
     [command |-> "pmmed", senderid |-> "u2"]}
NoCtx == [command |-> "", senderid |-> ""]

\* One entry of a chain's log.
NoEntry ==
    [t |-> "", api |-> "", name |-> NoName, song |-> NoSong, idx |-> 0,
     ok |-> TRUE, text |-> "", ctx |-> NoCtx, n |-> 0, songs |-> <<>>]
CmdEntry(cmd, arg, ctx) ==
    [NoEntry EXCEPT !.t = "cmd", !.api = cmd, !.name = arg, !.ctx = ctx]
ReqEntry(api, name, song, idx) ==
    [NoEntry EXCEPT !.t = "req", !.api = api, !.name = name, !.song = song,
                    !.idx = idx]
RespEntry(api, ok) == [NoEntry EXCEPT !.t = "resp", !.api = api, !.ok = ok]
\* The reply that passes on the error message of the response just logged.
ErrEntry(s, ctx) ==
    [NoEntry EXCEPT !.t = "reply", !.text = "err", !.n = Len(log[s]) + 1,
                    !.ctx = ctx]
RaiseEntry(what) == [NoEntry EXCEPT !.t = "raise", !.text = what]
\* LazySusan.reply(message, data): bot.speak, or bot.pm to data['senderid'].
ReplyEntry(text, name, n, ctx) ==
    [NoEntry EXCEPT !.t = "reply", !.text = text, !.name = name, !.n = n,
                    !.ctx = ctx]

\* A request awaiting its response, with the callback and what its closure
\* holds: obj (playlist), count (original_count, num), todo (song_ids,
\* to_add, new_order), failed, original, name (playlist_name, message).
NoReq ==
    [slot |-> 0, id |-> 0, api |-> "", cb |-> "", name |-> NoName, obj |-> 0,
     count |-> 0, todo |-> <<>>, failed |-> <<>>, original |-> <<>>]
Request(slot, id, api, cb) ==
    [NoReq EXCEPT !.slot = slot, !.id = id, !.api = api, !.cb = cb]

\* Set objects have no name of their own: only which references share one
\* can be observed.  After each handler the objects are numbered anew, the
\* mirror of the i-th key as i and an object that only closures hold by the
\* first chain holding it, and objects nobody refers to are gone.
Renumber(pls, pend, o) ==
    IF \E n \in DOMAIN pls : pls[n] = o
    THEN KeyIdx(CHOOSE n \in DOMAIN pls : pls[n] = o)
    ELSE Len(KeySeq) + 1 +
         (CHOOSE s \in Slots : /\ \E r \in pend : r.slot = s /\ r.obj = o
                               /\ \A r \in pend : r.obj = o => s <= r.slot)
CanonPlaylists(pls) == [n \in DOMAIN pls |-> KeyIdx(n)]
CanonPending(pls, pend) ==
    {IF r.obj = 0 THEN r ELSE [r EXCEPT !.obj = Renumber(pls, pend, r.obj)] :
        r \in pend}
CanonHeap(hp, pls, pend) ==
    LET live == {pls[n] : n \in DOMAIN pls} \cup ({r.obj : r \in pend} \ {0})
    IN [i \in {Renumber(pls, pend, o) : o \in live} |->
           hp[CHOOSE o \in live : Renumber(pls, pend, o) = i]]

\* k fresh set objects, as a sequence.
RECURSIVE FreshObjs(_, _)
FreshObjs(used, k) ==
    IF k = 0 THEN <<>>
    ELSE LET o == CHOOSE x \in ObjIds \ used : \A y \in ObjIds \ used : x <= y
         IN <<o>> \o FreshObjs(used \cup {o}, k - 1)
FreshObj(hp) == FreshObjs(DOMAIN hp, 1)[1]

\* self.playlists[name], a dict lookup
HasMirror(name) == name \in DOMAIN playlists
Mirror(name) == heap[playlists[name]]

\* Some enumeration of a finite set (the order of dict.keys()).
RECURSIVE SetToSeq(_)
SetToSeq(S) ==
    IF S = {} THEN <<>>
    ELSE LET x == CHOOSE y \in S : TRUE IN <<x>> \o SetToSeq(S \ {x})

\* The slot a new command's chain takes: the first without a request in flight.
Busy(s) == \E r \in pending : r.slot = s
FreeSlot == CHOOSE s \in 1..MaxChains : ~Busy(s) /\ \A u \in 1..(s - 1) : Busy(u)
CanStart == \E s \in 1..MaxChains : ~Busy(s)

\* The handler's effect on the plugin: the active name, the mirror map, the
\* objects, the requests in flight, and the log of chain s extended by es.
Commit(pl, pls, hp, pend, s, es) ==
    /\ playlist' = pl
    /\ playlists' = CanonPlaylists(pls)
    /\ heap' = CanonHeap(hp, pls, pend)
    /\ pending' = CanonPending(pls, pend)
    /\ log' = [log EXCEPT ![s] = IF s = 0 THEN <<>> ELSE @ \o es]

\* The same for a command, which starts the log of its chain anew.
Start(pl, pls, hp, pend, s, es) ==
    /\ playlist' = pl
    /\ playlists' = CanonPlaylists(pls)
    /\ heap' = CanonHeap(hp, pls, pend)
    /\ pending' = CanonPending(pls, pend)
    /\ log' = [log EXCEPT ![s] = IF s = 0 THEN <<>> ELSE es]

\* Guards of lazysusan.helpers.
no_arg_command(message) == message = <<>>
single_arg_command(message) == message # <<>>
admin_or_moderator_required(ctx) == ctx.senderid \in moderator_ids

-----------------------------------------------------------------------------
(* Part 4a: initialisation, /pladd, /pllist *)

\* The reply context of chain s: the data its command was called with.
Data(s) == log[s][1].ctx
\* The index the next entry of chain s gets, which names its request.
NextId(s) == Len(log[s]) + 1

\* The mirror map with name bound to object o.
Bind(pls, name, o) == Update(pls, [n \in {name} |-> o])
\* The heap with object o holding S.
Put(hp, o, S) == Update(hp, [x \in {o} |-> S])

\* Playlist._room_init, the plugin's handler of roomChanged.  The logs start
\* anew when the bot enters a room.
room_init ==
    LET lists == IF playlist = NoName
                 THEN {Request(0, 1, "playlistListAll", "_playlist_init")}
                 ELSE {}
        rooms == {Request(0, 0, "listRooms", "get_room_list")}
    IN /\ playlist' = playlist
       /\ playlists' = playlists
       /\ heap' = heap
       /\ pending' = pending \cup lists \cup rooms
       /\ log' = [s \in Slots |-> <<>>]

\* Playlist.get_room_list._closure: the rooms of the page that the loop
\* reaches are recorded; when the loop ends without break the next page is
\* requested.
get_room_list(r, page, more) ==
    /\ room_list' = room_list \cup page
    /\ Commit(playlist, playlists, heap,
              IF more THEN pending ELSE pending \ {r}, r.slot, <<>>)

\* Playlist._playlist_init: names are the listed playlists, active the one
\* marked active.
playlist_init(r, names, active) ==
    LET ns == SetToSeq(names)
        os == FreshObjs(DOMAIN heap, Len(ns))
        pls == Update(playlists, [n \in names |->
                  os[CHOOSE i \in 1..Len(ns) : ns[i] = n]])
        hp == Update(heap, [o \in Range(os) |-> {}])
        q == [Request(r.slot, 2, "playlistAll", "_playlist_info")
                EXCEPT !.name = active]
    IN Commit(active, pls, hp, (pending \ {r}) \cup {q}, r.slot,
              <<RespEntry(r.api, TRUE), ReqEntry("playlistAll", active, NoSong, 0)>>)

\* Playlist._playlist_info: the listing becomes the mirror of self.playlist.
playlist_info(r, listing) ==
    LET o == FreshObj(heap) IN
    Commit(playlist, Bind(playlists, playlist, o), Put(heap, o, listing),
           pending \ {r}, r.slot, <<RespEntry(r.api, TRUE)>>)

\* A variant that does not vote for a song it already has.
add_nobop(s, message, data) ==
    LET cmd == <<CmdEntry("/pladd", message, data)>>
        song == currentSongId
        bop == <<ReqEntry("bop", NoName, NoSong, 0)>>
    IN IF ~no_arg_command(message)
       THEN Start(playlist, playlists, heap, pending, s, cmd)
       ELSE IF song = NoSong
       THEN Start(playlist, playlists, heap, pending, s,
                  cmd \o <<ReplyEntry("no_song_playing", NoName, 0, data)>>)
       ELSE IF ~HasMirror(playlist)
       THEN Start(playlist, playlists, heap, pending, s,
                  cmd \o <<RaiseEntry("KeyError")>>)
       ELSE IF song \in Mirror(playlist)
       THEN Start(playlist, playlists, heap, pending, s,
                  cmd \o <<ReplyEntry("already_have", NoName, 0, data)>>)
       ELSE Start(playlist, playlists,
                  IF playlist = Default
                  THEN Put(heap, playlists[playlist], Mirror(playlist) \cup {song})
                  ELSE heap,
                  pending, s,
                  cmd \o <<ReplyEntry("cool_tunes", NoName, 0, data),
                           ReqEntry("playlistAdd", Default, song,
                                    Cardinality(Mirror(playlist)))>> \o bop)

\* Playlist.add (/pladd)
add(s, message, data) ==
    LET cmd == <<CmdEntry("/pladd", message, data)>>
        song == currentSongId
        bop == <<ReqEntry("bop", NoName, NoSong, 0)>>
    IN IF ~no_arg_command(message)
       THEN Start(playlist, playlists, heap, pending, s, cmd)
       ELSE IF song = NoSong
       THEN Start(playlist, playlists, heap, pending, s,
                  cmd \o <<ReplyEntry("no_song_playing", NoName, 0, data)>>)
       ELSE IF ~HasMirror(playlist)
       THEN Start(playlist, playlists, heap, pending, s,
                  cmd \o <<RaiseEntry("KeyError")>>)
       ELSE IF song \in Mirror(playlist)
       THEN Start(playlist, playlists, heap, pending, s,
                  cmd \o <<ReplyEntry("already_have", NoName, 0, data)>> \o bop)
       ELSE Start(playlist, playlists,
                  IF playlist = Default
                  THEN Put(heap, playlists[playlist], Mirror(playlist) \cup {song})
                  ELSE heap,
                  pending, s,
                  cmd \o <<ReplyEntry("cool_tunes", NoName, 0, data),
                           ReqEntry("playlistAdd", Default, song,
                                    Cardinality(Mirror(playlist)))>> \o bop)

\* Playlist.list (/pllist)
list(s, message, data) ==
    LET cmd == <<CmdEntry("/pllist", message, data)>>
        q == [Request(s, 2, "playlistAll", "list_callback") EXCEPT !.name = playlist]
    IN IF ~no_arg_command(message)
       THEN Start(playlist, playlists, heap, pending, s, cmd)
       ELSE Start(playlist, playlists, heap, pending \cup {q}, s,
                  cmd \o <<ReqEntry("playlistAll", playlist, NoSong, 0)>>)

\* Playlist.list.callback
list_callback(r, listing) ==
    LET o == FreshObj(heap) IN
    Commit(playlist, Bind(playlists, playlist, o), Put(heap, o, listing),
           pending \ {r}, r.slot,
           <<RespEntry(r.api, TRUE),
             ReplyEntry("songs_in_playlist", NoName, Cardinality(listing),
                        Data(r.slot))>>)

\* ---- the steps of the room service and of the chat

NoArgInputs == {<<>>, <<"x">>}

\* The snapshot of the room the bot joins.
JoinedRoom == RoomChangedEvent({}, {"bot", "u1", "u2"}, {"u1"}, 3)

PlRoomChanged ==
    /\ handle_room_change(JoinedRoom)
    /\ room_init
    /\ UNCHANGED <<room_list, currentSongId>>
    /\ UNCHANGED otherThanPlaylist

RespListRooms ==
    /\ \E r \in pending : r.cb = "get_room_list" /\
         \E page \in SUBSET Rooms, more \in BOOLEAN : get_room_list(r, page, more)
    /\ UNCHANGED <<currentSongId, sessVars>>
    /\ UNCHANGED otherThanPlaylist

RespPlaylistInit ==
    /\ \E r \in pending : r.cb = "_playlist_init" /\
         \E names \in SUBSET PNames : Default \in names /\
            \E active \in names : playlist_init(r, names, active)
    /\ UNCHANGED <<room_list, currentSongId, sessVars>>
    /\ UNCHANGED otherThanPlaylist

RespPlaylistInfo ==
    /\ \E r \in pending : r.cb = "_playlist_info" /\
         \E listing \in Listings : playlist_info(r, listing)
    /\ UNCHANGED <<room_list, currentSongId, sessVars>>
    /\ UNCHANGED otherThanPlaylist

NewSong ==
    /\ \E song \in PlayedSongs \cup {NoSong} : currentSongId' = song
    /\ UNCHANGED <<playlist, playlists, heap, room_list, pending, log, sessVars>>
    /\ UNCHANGED otherThanPlaylist

CmdAdd ==
    /\ CanStart
    /\ \E m \in NoArgInputs, data \in Ctxs : add(FreeSlot, m, data)
    /\ UNCHANGED <<room_list, currentSongId, sessVars>>
    /\ UNCHANGED otherThanPlaylist

CmdList ==
    /\ CanStart
    /\ \E m \in NoArgInputs, data \in Ctxs : list(FreeSlot, m, data)
    /\ UNCHANGED <<room_list, currentSongId, sessVars>>
    /\ UNCHANGED otherThanPlaylist

RespList ==
    /\ \E r \in pending : r.cb = "list_callback" /\
         \E listing \in Listings : list_callback(r, listing)
    /\ UNCHANGED <<room_list, currentSongId, sessVars>>
    /\ UNCHANGED otherThanPlaylist

-----------------------------------------------------------------------------
(* Part 4b: /plclear, /plcreate, /pldelete *)

\* Playlist.clear_callback reports progress every 30 removed songs.
ProgressEvery == 30

\* The request that clear and clear_callback._closure issue: remove the item
\* at index 0 of the playlist that is active now; the closure keeps the set
\* object and its original size.
RemoveHead(s, id, obj, count) ==
    [Request(s, id, "playlistRemove", "clear_closure")
        EXCEPT !.name = playlist, !.obj = obj, !.count = count]

\* A variant that empties a playlist of any name by remove-head requests.
clear_by_removal(s, message, data) ==
    LET cmd == <<CmdEntry("/plclear", message, data)>> IN
    IF ~(admin_or_moderator_required(data) /\ no_arg_command(message))
    THEN Start(playlist, playlists, heap, pending, s, cmd)
    ELSE IF ~HasMirror(playlist)
    THEN Start(playlist, playlists, heap, pending, s,
               cmd \o <<RaiseEntry("KeyError")>>)
    ELSE IF Mirror(playlist) = {}
    THEN Start(playlist, playlists, heap, pending, s,
               cmd \o <<ReplyEntry("already_empty", NoName, 0, data)>>)
    ELSE Start(playlist, playlists, heap,
               pending \cup {RemoveHead(s, 2, playlists[playlist],
                                        Cardinality(Mirror(playlist)))},
               s, cmd \o <<ReqEntry("playlistRemove", playlist, NoSong, 0)>>)

\* Playlist.clear (/plclear)
clear(s, message, data) ==
    LET cmd == <<CmdEntry("/plclear", message, data)>> IN
    IF ~(admin_or_moderator_required(data) /\ no_arg_command(message))
    THEN Start(playlist, playlists, heap, pending, s, cmd)
    ELSE IF ~HasMirror(playlist)
    THEN Start(playlist, playlists, heap, pending, s,
               cmd \o <<RaiseEntry("KeyError")>>)
    ELSE IF Mirror(playlist) = {}
    THEN Start(playlist, playlists, heap, pending, s,
               cmd \o <<ReplyEntry("already_empty", NoName, 0, data)>>)
    ELSE IF playlist # Default
    THEN Start(playlist, playlists, heap,
               pending \cup {[Request(s, 2, "playlistDelete", "clear_delete_callback")
                                EXCEPT !.name = playlist]},
               s, cmd \o <<ReqEntry("playlistDelete", playlist, NoSong, 0)>>)
    ELSE Start(playlist, playlists, heap,
               pending \cup {RemoveHead(s, 2, playlists[playlist],
                                        Cardinality(Mirror(playlist)))},
               s, cmd \o <<ReqEntry("playlistRemove", playlist, NoSong, 0)>>)

\* A variant that reports the playlist cleared after the first removal.
clear_closure_once(r, ok, song) ==
    LET s == r.slot
        resp == <<[RespEntry(r.api, ok) EXCEPT !.song = song]>>
    IN IF ~ok
       THEN Commit(playlist, playlists, heap, pending \ {r}, s,
                   resp \o <<ReplyEntry("failure_clearing", NoName,
                                        Cardinality(heap[r.obj]), Data(s))>>)
       ELSE Commit(playlist, playlists, Put(heap, r.obj, heap[r.obj] \ {song}),
                   pending \ {r}, s,
                   resp \o <<ReplyEntry("cleared", playlist, 0, Data(s))>>)

\* A variant that goes on after a failure.
clear_closure_nohalt(r, ok, song) ==
    LET s == r.slot
        resp == <<[RespEntry(r.api, ok) EXCEPT !.song = song]>>
    IN Commit(playlist, playlists, heap,
              (pending \ {r}) \cup {RemoveHead(s, NextId(s) + 1, r.obj, r.count)},
              s, resp \o <<ReqEntry("playlistRemove", playlist, NoSong, 0)>>)

\* Playlist.clear_callback._closure: song is data['song_dict'][0]['fileid'].
clear_closure(r, ok, song) ==
    LET s == r.slot
        resp == <<[RespEntry(r.api, ok) EXCEPT !.song = song]>>
        left == heap[r.obj] \ {song}
        removed == r.count - Cardinality(left)
        progress == IF removed % ProgressEvery = 0
                    THEN <<ReplyEntry("removed_so_far", NoName, removed, Data(s))>>
                    ELSE <<>>
    IN IF ~ok
       THEN Commit(playlist, playlists, heap, pending \ {r}, s,
                   resp \o <<ReplyEntry("failure_clearing", NoName,
                                        Cardinality(heap[r.obj]), Data(s))>>)
       ELSE IF song \notin heap[r.obj]
       THEN Commit(playlist, playlists, heap, pending \ {r}, s,
                   resp \o <<RaiseEntry("KeyError")>>)
       ELSE IF left # {}
       THEN Commit(playlist, playlists, Put(heap, r.obj, left),
                   (pending \ {r}) \cup
                      {RemoveHead(s, NextId(s) + 1 + Len(progress), r.obj, r.count)},
                   s, resp \o progress
                        \o <<ReqEntry("playlistRemove", playlist, NoSong, 0)>>)
       ELSE Commit(playlist, playlists, Put(heap, r.obj, left), pending \ {r}, s,
                   resp \o progress
                        \o <<ReplyEntry("cleared", playlist, 0, Data(s))>>)

\* Playlist.clear.delete_callback
clear_delete_callback(r, ok) ==
    LET s == r.slot
        o == FreshObj(heap)
    IN IF ok
       THEN Commit(playlist, Bind(playlists, playlist, o), Put(heap, o, {}),
                   (pending \ {r}) \cup
                      {[Request(s, NextId(s) + 1, "playlistCreate", "clear_create_callback")
                          EXCEPT !.name = playlist]},
                   s, <<RespEntry(r.api, ok),
                        ReqEntry("playlistCreate", playlist, NoSong, 0)>>)
       ELSE Commit(playlist, playlists, heap, pending \ {r}, s,
                   <<RespEntry(r.api, ok), ErrEntry(s, Data(s))>>)

\* Playlist.clear.delete_callback.create_callback: on failure it reads 'err'
\* of the delete response, which was a success and carries none.
clear_create_callback(r, ok) ==
    LET s == r.slot IN
    IF ok
    THEN Commit(playlist, playlists, heap, pending \ {r}, s,
                <<RespEntry(r.api, ok), ReplyEntry("cleared", playlist, 0, Data(s))>>)
    ELSE Commit(playlist, playlists, heap, pending \ {r}, s,
                <<RespEntry(r.api, ok), RaiseEntry("KeyError")>>)

\* Playlist.create (/plcreate)
create(s, message, data) ==
    LET cmd == <<CmdEntry("/plcreate", message, data)>> IN
    IF ~single_arg_command(message)
    THEN Start(playlist, playlists, heap, pending, s,
               cmd \o <<ReplyEntry("usage", NoName, 0, data)>>)
    ELSE Start(playlist, playlists, heap,
               pending \cup {[Request(s, 2, "playlistCreate", "create_callback")
                                EXCEPT !.name = message]},
               s, cmd \o <<ReqEntry("playlistCreate", message, NoSong, 0)>>)

\* Playlist.create.callback
create_callback(r, ok) ==
    LET s == r.slot
        o == FreshObj(heap)
    IN IF ok
       THEN Commit(playlist, Bind(playlists, r.name, o), Put(heap, o, {}),
                   pending \ {r}, s,
                   <<RespEntry(r.api, ok), ReplyEntry("created", r.name, 0, Data(s))>>)
       ELSE Commit(playlist, playlists, heap, pending \ {r}, s,
                   <<RespEntry(r.api, ok), ErrEntry(s, Data(s))>>)

\* Playlist.delete (/pldelete)
delete(s, message, data) ==
    LET cmd == <<CmdEntry("/pldelete", message, data)>> IN
    IF ~single_arg_command(message)
    THEN Start(playlist, playlists, heap, pending, s,
               cmd \o <<ReplyEntry("usage", NoName, 0, data)>>)
    ELSE Start(playlist, playlists, heap,
               pending \cup {[Request(s, 2, "playlistDelete", "delete_callback")
                                EXCEPT !.name = message]},
               s, cmd \o <<ReqEntry("playlistDelete", message, NoSong, 0)>>)

\* The dict without key name (del d[name])
Without(pls, name) == [n \in DOMAIN pls \ {name} |-> pls[n]]

\* Playlist.delete.callback
delete_callback(r, ok) ==
    LET s == r.slot IN
    IF ~ok
    THEN Commit(playlist, playlists, heap, pending \ {r}, s,
                <<RespEntry(r.api, ok), ErrEntry(s, Data(s))>>)
    ELSE IF r.name \notin DOMAIN playlists
    THEN Commit(playlist, playlists, heap, pending \ {r}, s,
                <<RespEntry(r.api, ok), RaiseEntry("KeyError")>>)
    ELSE Commit(playlist, Without(playlists, r.name), heap, pending \ {r}, s,
                <<RespEntry(r.api, ok), ReplyEntry("deleted", r.name, 0, Data(s))>>)

ArgInputs == PNames \cup {<<>>}
Outcomes == BOOLEAN

CmdClear ==
    /\ CanStart
    /\ \E m \in NoArgInputs, data \in Ctxs : clear(FreeSlot, m, data)
    /\ UNCHANGED <<room_list, currentSongId, sessVars>>
    /\ UNCHANGED otherThanPlaylist

RespClearRemove ==
    /\ \E r \in pending : r.cb = "clear_closure" /\
         \E in \in ({TRUE} \X Songs) \cup {<<FALSE, NoSong>>} :
            clear_closure(r, in[1], in[2])
    /\ UNCHANGED <<room_list, currentSongId, sessVars>>
    /\ UNCHANGED otherThanPlaylist

RespClearDelete ==
    /\ \E r \in pending : r.cb = "clear_delete_callback" /\
         \E ok \in Outcomes : clear_delete_callback(r, ok)
    /\ UNCHANGED <<room_list, currentSongId, sessVars>>
    /\ UNCHANGED otherThanPlaylist

RespClearCreate ==
    /\ \E r \in pending : r.cb = "clear_create_callback" /\
         \E ok \in Outcomes : clear_create_callback(r, ok)
    /\ UNCHANGED <<room_list, currentSongId, sessVars>>
    /\ UNCHANGED otherThanPlaylist

CmdCreate ==
    /\ CanStart
    /\ \E m \in ArgInputs, data \in Ctxs : create(FreeSlot, m, data)
    /\ UNCHANGED <<room_list, currentSongId, sessVars>>
    /\ UNCHANGED otherThanPlaylist

RespCreate ==
    /\ \E r \in pending : r.cb = "create_callback" /\
         \E ok \in Outcomes : create_callback(r, ok)
    /\ UNCHANGED <<room_list, currentSongId, sessVars>>
    /\ UNCHANGED otherThanPlaylist

CmdDelete ==
    /\ CanStart
    /\ \E m \in ArgInputs, data \in Ctxs : delete(FreeSlot, m, data)
    /\ UNCHANGED <<room_list, currentSongId, sessVars>>
    /\ UNCHANGED otherThanPlaylist

RespDelete ==
    /\ \E r \in pending : r.cb = "delete_callback" /\
         \E ok \in Outcomes : delete_callback(r, ok)
    /\ UNCHANGED <<room_list, currentSongId, sessVars>>
    /\ UNCHANGED otherThanPlaylist

-----------------------------------------------------------------------------
(* Part 4c: /plswitch, /plload *)

\* Playlist.switch (/plswitch)
switch(s, message, data) ==
    LET cmd == <<CmdEntry("/plswitch", message, data)>>
        sel == best_match(message, SetToSeq(DOMAIN playlists))
    IN IF ~single_arg_command(message)
       THEN Start(playlist, playlists, heap, pending, s,
                  cmd \o <<ReplyEntry("usage", NoName, 0, data)>>)
       ELSE IF sel = List(<<>>) \/ sel = Single(<<>>)
       THEN Start(playlist, playlists, heap, pending, s,
                  cmd \o <<ReplyEntry("invalid_name", NoName, 0, data)>>)
       ELSE IF sel.kind = "list"
       THEN Start(playlist, playlists, heap, pending, s,
                  cmd \o <<ReplyEntry("possible_matches", NoName, Len(sel.list), data)>>)
       ELSE Start(playlist, playlists, heap,
                  pending \cup {[Request(s, 2, "playlistSwitch", "switch_callback")
                                   EXCEPT !.name = sel.name]},
                  s, cmd \o <<ReqEntry("playlistSwitch", sel.name, NoSong, 0)>>)

\* Playlist.switch.callback: the response names the playlist switched to.
switch_callback(r, ok) ==
    LET s == r.slot IN
    IF ok
    THEN Commit(r.name, playlists, heap,
                (pending \ {r}) \cup
                   {[Request(s, NextId(s) + 1, "playlistAll", "_playlist_info")
                       EXCEPT !.name = r.name]},
                s, <<RespEntry(r.api, ok),
                     ReqEntry("playlistAll", r.name, NoSong, 0),
                     ReplyEntry("switched", r.name, 0, Data(s))>>)
    ELSE Commit(playlist, playlists, heap, pending \ {r}, s,
                <<RespEntry(r.api, ok), ErrEntry(s, Data(s))>>)

\* bot.config: the local playlists, botplaylist.<name> split at newlines.
\* The second one lists a song twice.
Config ==
    [m \in {Mix, Dup} |-> IF m = Mix THEN <<"A", "B">> ELSE <<"A", "A", "B">>]

\* The while loop of Playlist.load.add_songs over song_ids (todo), failed and
\* the mirror (set): song is the id it requests, NoSong when it ran out.
RECURSIVE LoadLoop(_, _, _)
LoadLoop(todo, failed, set) ==
    IF todo = <<>>
    THEN [todo |-> todo, failed |-> failed, set |-> set, song |-> NoSong]
    ELSE LET song_id == Head(todo) IN
         IF song_id \notin set
         THEN [todo |-> Tail(todo), failed |-> <<song_id>> \o failed,
               set |-> set \cup {song_id}, song |-> song_id]
         ELSE LoadLoop(Tail(todo), <<song_id>> \o failed, set)

\* Playlist.load.add_songs, entered with todo and failed as the closure holds
\* them; es are the entries the caller has logged in this handler.
load_add_songs(r, todo, failed, es) ==
    LET s == r.slot IN
    IF r.name \notin DOMAIN playlists
    THEN Commit(playlist, playlists, heap, pending \ {r}, s,
                es \o <<RaiseEntry("KeyError")>>)
    ELSE LET l == LoadLoop(todo, failed, heap[playlists[r.name]])
             id == NextId(s) + Len(es)
         IN IF l.song # NoSong
            THEN Commit(playlist, playlists, Put(heap, playlists[r.name], l.set),
                        (pending \ {r}) \cup
                           {[Request(s, id, "playlistAdd", "load_add_songs")
                               EXCEPT !.name = r.name, !.todo = l.todo,
                                      !.failed = l.failed]},
                        s, es \o <<ReqEntry("playlistAdd", r.name, l.song,
                                            Cardinality(l.set) - 1)>>)
            ELSE Commit(playlist, playlists, heap,
                        (pending \ {r}) \cup
                           {[Request(s, id, "playlistSwitch", "load_switch_callback")
                               EXCEPT !.name = r.name, !.failed = l.failed]},
                        s, es \o <<ReqEntry("playlistSwitch", r.name, NoSong, 0)>>)

\* Playlist.load (/plload)
load(s, message, data) ==
    LET cmd == <<CmdEntry("/plload", message, data)>>
        playlist_name == LocalPrefix \o message
        api == IF playlist_name \in DOMAIN playlists
               THEN "playlistDelete" ELSE "playlistCreate"
        cb == IF playlist_name \in DOMAIN playlists
              THEN "load_delete_callback" ELSE "load_create_callback"
    IN IF ~admin_or_moderator_required(data)
       THEN Start(playlist, playlists, heap, pending, s, cmd)
       ELSE IF ~single_arg_command(message)
       THEN Start(playlist, playlists, heap, pending, s,
                  cmd \o <<ReplyEntry("usage", NoName, 0, data)>>)
       ELSE IF message \notin DOMAIN Config
       THEN Start(playlist, playlists, heap, pending, s,
                  cmd \o <<ReplyEntry("does_not_exist", NoName, 0, data)>>)
       ELSE Start(playlist, playlists, heap,
                  pending \cup {[Request(s, 2, api, cb)
                                   EXCEPT !.name = playlist_name,
                                          !.todo = Config[message]]},
                  s, cmd \o <<ReqEntry(api, playlist_name, NoSong, 0)>>)

\* Playlist.load.delete_callback
load_delete_callback(r, ok) ==
    LET s == r.slot IN
    IF ~ok
    THEN Commit(playlist, playlists, heap, pending \ {r}, s,
                <<RespEntry(r.api, ok), ErrEntry(s, Data(s))>>)
    ELSE IF r.name \notin DOMAIN playlists
    THEN Commit(playlist, playlists, heap, pending \ {r}, s,
                <<RespEntry(r.api, ok), RaiseEntry("KeyError")>>)
    ELSE Commit(playlist, Without(playlists, r.name), heap,
                (pending \ {r}) \cup
                   {[Request(s, NextId(s) + 1, "playlistCreate", "load_create_callback")
                       EXCEPT !.name = r.name, !.todo = r.todo]},
                s, <<RespEntry(r.api, ok),
                     ReqEntry("playlistCreate", r.name, NoSong, 0)>>)

\* Playlist.load.create_callback.  On success the new empty mirror is bound
\* and add_songs() runs in the same handler.
load_create_callback(r, ok) ==
    LET s == r.slot
        o == FreshObj(heap)
        l == LoadLoop(r.todo, <<>>, {})
        id == NextId(s) + 1
    IN IF ~ok
       THEN Commit(playlist, playlists, heap, pending \ {r}, s,
                   <<RespEntry(r.api, ok), ErrEntry(s, Data(s))>>)
       ELSE IF l.song # NoSong
       THEN Commit(playlist, Bind(playlists, r.name, o), Put(heap, o, l.set),
                   (pending \ {r}) \cup
                      {[Request(s, id, "playlistAdd", "load_add_songs")
                          EXCEPT !.name = r.name, !.todo = l.todo,
                                 !.failed = l.failed]},
                   s, <<RespEntry(r.api, ok),
                        ReqEntry("playlistAdd", r.name, l.song,
                                 Cardinality(l.set) - 1)>>)
       ELSE Commit(playlist, Bind(playlists, r.name, o), Put(heap, o, {}),
                   (pending \ {r}) \cup
                      {[Request(s, id, "playlistSwitch", "load_switch_callback")
                          EXCEPT !.name = r.name, !.failed = l.failed]},
                   s, <<RespEntry(r.api, ok),
                        ReqEntry("playlistSwitch", r.name, NoSong, 0)>>)

\* Playlist.load.add_songs as the callback of an add request: a success
\* takes the first id off failed, then the loop goes on.
load_add_callback(r, ok) ==
    load_add_songs(r, r.todo, IF ok THEN Tail(r.failed) ELSE r.failed,
                   <<RespEntry(r.api, ok)>>)

\* Playlist.load.switch_callback
load_switch_callback(r, ok) ==
    LET s == r.slot IN
    IF ok
    THEN Commit(r.name, playlists, heap, pending \ {r}, s,
                <<RespEntry(r.api, ok),
                  [ReplyEntry("loaded", r.name, Len(r.name), Data(s))
                      EXCEPT !.songs = r.failed]>>)
    ELSE Commit(playlist, playlists, heap, pending \ {r}, s,
                <<RespEntry(r.api, ok), ErrEntry(s, Data(s))>>)

SwitchInputs == {Default, Rock, <<"l">>, <<"o">>, <<"z">>, <<>>}
LoadInputs == {Mix, Dup, <<"z">>, <<>>}

CmdSwitch ==
    /\ CanStart
    /\ \E m \in SwitchInputs, data \in Ctxs : switch(FreeSlot, m, data)
    /\ UNCHANGED <<room_list, currentSongId, sessVars>>
    /\ UNCHANGED otherThanPlaylist

RespSwitch ==
    /\ \E r \in pending : r.cb = "switch_callback" /\
         \E ok \in Outcomes : switch_callback(r, ok)
    /\ UNCHANGED <<room_list, currentSongId, sessVars>>
    /\ UNCHANGED otherThanPlaylist

CmdLoad ==
    /\ CanStart
    /\ \E m \in LoadInputs, data \in Ctxs : load(FreeSlot, m, data)
    /\ UNCHANGED <<room_list, currentSongId, sessVars>>
    /\ UNCHANGED otherThanPlaylist

RespLoadDelete ==
    /\ \E r \in pending : r.cb = "load_delete_callback" /\
         \E ok \in Outcomes : load_delete_callback(r, ok)
    /\ UNCHANGED <<room_list, currentSongId, sessVars>>
    /\ UNCHANGED otherThanPlaylist

RespLoadCreate ==
    /\ \E r \in pending : r.cb = "load_create_callback" /\
         \E ok \in Outcomes : load_create_callback(r, ok)
    /\ UNCHANGED <<room_list, currentSongId, sessVars>>
    /\ UNCHANGED otherThanPlaylist

RespLoadAdd ==
    /\ \E r \in pending : r.cb = "load_add_songs" /\
         \E ok \in Outcomes : load_add_callback(r, ok)
    /\ UNCHANGED <<room_list, currentSongId, sessVars>>
    /\ UNCHANGED otherThanPlaylist

RespLoadSwitch ==
    /\ \E r \in pending : r.cb = "load_switch_callback" /\
         \E ok \in Outcomes : load_switch_callback(r, ok)
    /\ UNCHANGED <<room_list, currentSongId, sessVars>>
    /\ UNCHANGED otherThanPlaylist

-----------------------------------------------------------------------------
(* Part 4d: /plupdate *)

UPDATE_MAX_ITEMS == 10

\* The score of each song in a room's song log.
Score == [x \in Songs |-> IF x = "A" THEN 5 ELSE IF x = "B" THEN 1 ELSE 3]

\* A variant that sorts by descending score.
RECURSIVE InsertSortedDesc(_, _)
InsertSortedDesc(x, sorted) ==
    IF sorted = <<>> THEN <<x>>
    ELSE IF Score[x] >= Score[Head(sorted)] THEN <<x>> \o sorted
    ELSE <<Head(sorted)>> \o InsertSortedDesc(x, Tail(sorted))

\* (score, id) tuples compare by score, then by id; ids with the same score
\* are the same id here.
RECURSIVE InsertSorted(_, _)
InsertSorted(x, sorted) ==
    IF sorted = <<>> THEN <<x>>
    ELSE IF Score[x] <= Score[Head(sorted)] THEN <<x>> \o sorted
    ELSE <<Head(sorted)>> \o InsertSorted(x, Tail(sorted))

\* list.sort() of to_add, ascending
RECURSIVE Sort(_)
Sort(q) == IF q = <<>> THEN <<>> ELSE InsertSorted(Head(q), Sort(Tail(q)))

\* to_add before sorting: the songs of the log that are not in the set
RECURSIVE NotIn(_, _)
NotIn(songs, set) ==
    IF songs = <<>> THEN <<>>
    ELSE (IF Head(songs) \notin set THEN <<Head(songs)>> ELSE <<>>)
            \o NotIn(Tail(songs), set)

\* Playlist.update_playlist.room_info_callback.add_songs followed by the
\* first add_song_callback(None); es are the entries the caller has logged.
update_add_songs(r, pl, pls, hp, songs, es) ==
    LET s == r.slot IN
    IF pl \notin DOMAIN pls
    THEN Commit(pl, pls, hp, pending \ {r}, s, es \o <<RaiseEntry("KeyError")>>)
    ELSE LET o == pls[pl]
             to_add == Sort(NotIn(songs, hp[o]))
             id == NextId(s) + Len(es)
         IN IF to_add = <<>>
            THEN Commit(pl, pls, hp, pending \ {r}, s,
                        es \o <<ReplyEntry("no_songs", NoName, 0, Data(s))>>)
            ELSE Commit(pl, pls, Put(hp, o, hp[o] \cup {Head(to_add)}),
                        (pending \ {r}) \cup
                           {[Request(s, id, "playlistAdd", "add_song_callback")
                               EXCEPT !.obj = o, !.todo = Tail(to_add),
                                      !.count = Len(to_add)]},
                        s, es \o <<ReqEntry("playlistAdd", pl, Head(to_add), 0)>>)

\* add_song_callback(_): the response is not looked at.
add_song_callback(r, ok) ==
    LET s == r.slot IN
    IF r.todo # <<>>
    THEN Commit(playlist, playlists,
                Put(heap, r.obj, heap[r.obj] \cup {Head(r.todo)}),
                (pending \ {r}) \cup {[r EXCEPT !.id = NextId(s) + 1,
                                                !.todo = Tail(r.todo)]},
                s, <<RespEntry(r.api, ok),
                     ReqEntry("playlistAdd", playlist, Head(r.todo), 0)>>)
    ELSE Commit(playlist, playlists, heap, pending \ {r}, s,
                <<RespEntry(r.api, ok),
                  ReplyEntry("added", NoName, r.count, Data(s))>>)

\* Playlist.update_playlist (/plupdate)
update_playlist(s, message, data) ==
    LET cmd == <<CmdEntry("/plupdate", message, data)>>
        sel == best_match(message, SetToSeq(room_list))
    IN IF ~single_arg_command(message)
       THEN Start(playlist, playlists, heap, pending, s,
                  cmd \o <<ReplyEntry("usage", NoName, 0, data)>>)
       ELSE IF sel = List(<<>>) \/ sel = Single(<<>>)
       THEN Start(playlist, playlists, heap, pending, s,
                  cmd \o <<IF Cardinality(room_list) < UPDATE_MAX_ITEMS
                           THEN RaiseEntry("ValueError")
                           ELSE ReplyEntry("could_not_find", NoName,
                                           UPDATE_MAX_ITEMS, data)>>)
       ELSE IF sel.kind = "list"
       THEN Start(playlist, playlists, heap, pending, s,
                  cmd \o <<ReplyEntry("possible_matches", NoName, Len(sel.list), data)>>)
       ELSE Start(playlist, playlists, heap,
                  pending \cup {[Request(s, 3, "roomInfo", "room_info_callback")
                                   EXCEPT !.name = sel.name]},
                  s, cmd \o <<ReplyEntry("querying", sel.name, 0, data),
                              ReqEntry("roomInfo", sel.name, NoSong, 0)>>)

\* room_info_callback: songs is the song log of the response.
room_info_callback(r, songs) ==
    LET s == r.slot
        resp == <<[RespEntry(r.api, TRUE) EXCEPT !.songs = songs]>>
    IN IF r.name \notin DOMAIN playlists
       THEN Commit(playlist, playlists, heap,
                   (pending \ {r}) \cup
                      {[Request(s, NextId(s) + 1, "playlistCreate",
                                "update_create_callback")
                          EXCEPT !.name = r.name, !.todo = songs]},
                   s, resp \o <<ReqEntry("playlistCreate", r.name, NoSong, 0)>>)
       ELSE IF r.name = playlist
       THEN update_add_songs(r, playlist, playlists, heap, songs, resp)
       ELSE Commit(playlist, playlists, heap,
                   (pending \ {r}) \cup
                      {[Request(s, NextId(s) + 1, "playlistSwitch",
                                "update_switch_callback")
                          EXCEPT !.name = r.name, !.todo = songs]},
                   s, resp \o <<ReqEntry("playlistSwitch", r.name, NoSong, 0)>>)

\* room_info_callback.create_callback: on failure the name reply is read
\* before update_playlist has bound it.
update_create_callback(r, ok) ==
    LET s == r.slot IN
    IF ok
    THEN Commit(playlist, playlists, heap,
                (pending \ {r}) \cup
                   {[Request(s, NextId(s) + 1, "playlistSwitch",
                             "update_switch_callback")
                       EXCEPT !.name = r.name, !.todo = r.todo]},
                s, <<RespEntry(r.api, ok),
                     ReqEntry("playlistSwitch", r.name, NoSong, 0)>>)
    ELSE Commit(playlist, playlists, heap, pending \ {r}, s,
                <<RespEntry(r.api, ok), RaiseEntry("NameError")>>)

\* room_info_callback.switch_callback
update_switch_callback(r, ok) ==
    LET s == r.slot IN
    IF ok
    THEN Commit(r.name, playlists, heap,
                (pending \ {r}) \cup
                   {[Request(s, NextId(s) + 1, "playlistAll",
                             "update_list_callback")
                       EXCEPT !.name = r.name, !.todo = r.todo]},
                s, <<RespEntry(r.api, ok),
                     ReqEntry("playlistAll", r.name, NoSong, 0)>>)
    ELSE Commit(playlist, playlists, heap, pending \ {r}, s,
                <<RespEntry(r.api, ok), ErrEntry(s, Data(s))>>)

\* room_info_callback.list_callback
update_list_callback(r, listing) ==
    LET o == FreshObj(heap) IN
    update_add_songs(r, playlist, Bind(playlists, playlist, o),
                     Put(heap, o, listing), r.todo,
                     <<RespEntry(r.api, TRUE)>>)

MaxLog == 3
SongLogs == SeqsUpTo(Songs, MaxLog)
UpdateInputs == {Rock, <<"r">>, <<"z">>, <<>>}

CmdUpdate ==
    /\ CanStart
    /\ \E m \in UpdateInputs, data \in Ctxs : update_playlist(FreeSlot, m, data)
    /\ UNCHANGED <<room_list, currentSongId, sessVars>>
    /\ UNCHANGED otherThanPlaylist

RespRoomInfo ==
    /\ \E r \in pending : r.cb = "room_info_callback" /\
         \E songs \in SongLogs : room_info_callback(r, songs)
    /\ UNCHANGED <<room_list, currentSongId, sessVars>>
    /\ UNCHANGED otherThanPlaylist

RespUpdateCreate ==
    /\ \E r \in pending : r.cb = "update_create_callback" /\
         \E ok \in Outcomes : update_create_callback(r, ok)
    /\ UNCHANGED <<room_list, currentSongId, sessVars>>
    /\ UNCHANGED otherThanPlaylist

RespUpdateSwitch ==
    /\ \E r \in pending : r.cb = "update_switch_callback" /\
         \E ok \in Outcomes : update_switch_callback(r, ok)
    /\ UNCHANGED <<room_list, currentSongId, sessVars>>
    /\ UNCHANGED otherThanPlaylist

RespUpdateList ==
    /\ \E r \in pending : r.cb = "update_list_callback" /\
         \E listing \in Listings : update_list_callback(r, listing)
    /\ UNCHANGED <<room_list, currentSongId, sessVars>>
    /\ UNCHANGED otherThanPlaylist

RespUpdateAdd ==
    /\ \E r \in pending : r.cb = "add_song_callback" /\
         \E ok \in Outcomes : add_song_callback(r, ok)
    /\ UNCHANGED <<room_list, currentSongId, sessVars>>
    /\ UNCHANGED otherThanPlaylist

-----------------------------------------------------------------------------
(* Part 4e: /plshuffle *)

\* min(len(original), 10)
ShuffleMax == 10

\* list(range(n))
RangeList(n) == [i \in 1..n |-> i - 1]

\* list.index(item), del list[i] and list.insert(i, item), indices from 0
IndexOf(q, item) == (CHOOSE i \in 1..Len(q) : q[i] = item) - 1
DelAt(q, i) == SubSeq(q, 1, i) \o SubSeq(q, i + 2, Len(q))
InsertAt(q, i, item) == SubSeq(q, 1, i) \o <<item>> \o SubSeq(q, i + 1, Len(q))

\* A variant that does not simulate the moves: the source is the item's
\* original index.
get_endpoints_nosim(original, new_order, index) ==
    [src |-> Head(new_order), dst |-> index, original |-> original,
     new_order |-> Tail(new_order), index |-> index + 1]

\* Playlist.shuffle.get_endpoints, on the closure's original, new_order and
\* index[0]
get_endpoints(original, new_order, index) ==
    LET dst == index
        item == Head(new_order)
        src == IndexOf(original, item)
    IN [src |-> src, dst |-> dst,
        original |-> IF src # dst
                     THEN InsertAt(DelAt(original, src), dst, item)
                     ELSE original,
        new_order |-> Tail(new_order), index |-> index + 1]

\* The reorder request and its log entry for endpoints e.
ReorderReq(s, id, e, num) ==
    [Request(s, id, "playlistReorder", "shuffle_callback")
        EXCEPT !.name = playlist, !.count = num, !.todo = e.new_order,
               !.original = e.original]
ReorderEntry(e) ==
    [ReqEntry("playlistReorder", playlist, NoSong, e.src) EXCEPT !.n = e.dst]

\* random.sample(original, num), as an entry of the log
SampleEntry(new_order) == [NoEntry EXCEPT !.t = "sample", !.songs = new_order]

\* Playlist.shuffle (/plshuffle); new_order is what random.sample returns.
shuffle(s, message, data, new_order) ==
    LET cmd == <<CmdEntry("/plshuffle", message, data)>>
        n == Cardinality(Mirror(playlist))
        num == IF n < ShuffleMax THEN n ELSE ShuffleMax
        e == get_endpoints(RangeList(n), new_order, 0)
    IN IF ~no_arg_command(message)
       THEN Start(playlist, playlists, heap, pending, s, cmd)
       ELSE IF ~HasMirror(playlist)
       THEN Start(playlist, playlists, heap, pending, s,
                  cmd \o <<RaiseEntry("KeyError")>>)
       ELSE IF num < 2
       THEN Start(playlist, playlists, heap, pending, s,
                  cmd \o <<ReplyEntry("too_few", playlist, 0, data)>>)
       ELSE Start(playlist, playlists, heap,
                  pending \cup {ReorderReq(s, 3, e, num)}, s,
                  cmd \o <<SampleEntry(new_order), ReorderEntry(e)>>)

\* Playlist.shuffle.callback; index[0] is num less what is left of new_order.
shuffle_callback(r, ok) ==
    LET s == r.slot
        index == r.count - Len(r.todo)
        e == get_endpoints(r.original, r.todo, index)
    IN IF ~ok
       THEN Commit(playlist, playlists, heap, pending \ {r}, s,
                   <<RespEntry(r.api, ok),
                     ReplyEntry("error_shuffling", NoName, 0, Data(s))>>)
       ELSE IF index >= r.count
       THEN Commit(playlist, playlists, heap, pending \ {r}, s,
                   <<RespEntry(r.api, ok),
                     ReplyEntry("completed", NoName, 0, Data(s))>>)
       ELSE Commit(playlist, playlists, heap,
                   (pending \ {r}) \cup {ReorderReq(s, NextId(s) + 1, e, r.count)},
                   s, <<RespEntry(r.api, ok), ReorderEntry(e)>>)

\* The samples random.sample(range(n), num) is taken to return: every one
\* for a short list, and for a longer list the first num indices, the last
\* num in descending order, and every seventh index going round.
MaxFullSample == 3
Samples(n, num) ==
    IF n <= MaxFullSample
    THEN {q \in DistinctSeqsUpTo(0..(n - 1), num) : Len(q) = num}
    ELSE {q \in {[i \in 1..num |-> i - 1], [i \in 1..num |-> n - i],
                 [i \in 1..num |-> (7 * i) % n]} :
             \A i, j \in 1..num : i # j => q[i] # q[j]}

\* A listing longer than the shuffle takes from.
LongListing == {"A", "B", "C", "D", "E", "F", "G", "H", "I", "J", "K"}

RespPlaylistInfoLong ==
    /\ \E r \in pending : r.cb = "_playlist_info" /\ playlist_info(r, LongListing)
    /\ UNCHANGED <<room_list, currentSongId, sessVars>>
    /\ UNCHANGED otherThanPlaylist

CmdShuffle ==
    /\ CanStart
    /\ \E m \in NoArgInputs, data \in Ctxs :
         LET n == IF HasMirror(playlist) THEN Cardinality(Mirror(playlist)) ELSE 0
             num == IF n < ShuffleMax THEN n ELSE ShuffleMax
         IN \E new_order \in Samples(n, num) : shuffle(FreeSlot, m, data, new_order)
    /\ UNCHANGED <<room_list, currentSongId, sessVars>>
    /\ UNCHANGED otherThanPlaylist

RespShuffle ==
    /\ \E r \in pending : r.cb = "shuffle_callback" /\
         \E ok \in Outcomes : shuffle_callback(r, ok)
    /\ UNCHANGED <<room_list, currentSongId, sessVars>>
    /\ UNCHANGED otherThanPlaylist

-----------------------------------------------------------------------------
(* Part 5: the Dj plugin *)

\* Dj.is_dj and Dj.is_playing
is_dj(djs) == BotId \in djs
is_playing == BotId = currentDjId

\* Dj.should_step_down for the sets djs and listeners and the table size m.
\* Before the first roomChanged m is None, and in Python 2 every integer
\* compares greater than None.
should_step_down(djs, listeners, m) ==
    /\ is_dj(djs)
    /\ \/ Cardinality(listeners) <= 1
       \/ m = NoneVal
       \/ Cardinality(djs) >= m

\* Dj.should_step_up evaluates None - 1 when the table size is not known and
\* the tests before it pass: a TypeError.
should_step_up_raises(djs, listeners, m) ==
    /\ ~is_dj(djs)
    /\ Cardinality(listeners) > 1
    /\ m = NoneVal

\* A variant of should_step_up that fills the table up to its last seat.
should_step_up_wide(djs, listeners, m) ==
    /\ ~is_dj(djs)
    /\ Cardinality(listeners) > 1
    /\ Cardinality(djs) < (IF 2 < m THEN 2 ELSE m)

\* A variant of should_step_up that does not ask whether the bot is a dj.
should_step_up_any(djs, listeners, m) ==
    /\ Cardinality(listeners) > 1
    /\ Cardinality(djs) < (IF 2 < m - 1 THEN 2 ELSE m - 1)

should_step_up(djs, listeners, m) ==
    /\ ~is_dj(djs)
    /\ Cardinality(listeners) > 1
    /\ Cardinality(djs) < (IF 2 < m - 1 THEN 2 ELSE m - 1)

\* bot.api.addDj(), bot.api.remDj(), bot.api.skip()
ApiCall(api) == ReqEntry(api, NoName, NoSong, 0)

\* A variant that leaves the table at once, playing or not.
dj_update_nodefer(data, djs, listeners, m) ==
    /\ end_song_step_down' = end_song_step_down
    /\ IF \E i \in 1..Len(data.user) : data.user[i] = BotId
       THEN /\ should_auto_skip' =
                 IF data.command = "rem_dj" THEN FALSE ELSE should_auto_skip
            /\ out' = <<>>
       ELSE /\ should_auto_skip' = should_auto_skip
            /\ out' = IF should_step_down(djs, listeners, m)
                      THEN <<ApiCall("remDj")>>
                      ELSE IF should_step_up_raises(djs, listeners, m)
                      THEN <<RaiseEntry("TypeError")>>
                      ELSE IF should_step_up(djs, listeners, m)
                      THEN <<ApiCall("addDj")>>
                      ELSE <<>>

\* A variant that acts on the sets as they were before the event.
dj_update_cached(data, djs, listeners, m) ==
    IF \E i \in 1..Len(data.user) : data.user[i] = BotId
    THEN /\ should_auto_skip' =
              IF data.command = "rem_dj" THEN FALSE ELSE should_auto_skip
         /\ end_song_step_down' = end_song_step_down
         /\ out' = <<>>
    ELSE /\ should_auto_skip' = should_auto_skip
         /\ IF should_step_down(dj_ids, listener_ids, max_djs)
            THEN IF is_playing
                 THEN /\ end_song_step_down' = TRUE
                      /\ out' = <<>>
                 ELSE /\ end_song_step_down' = end_song_step_down
                      /\ out' = <<ApiCall("remDj")>>
            ELSE /\ end_song_step_down' = end_song_step_down
                 /\ out' = IF should_step_up_raises(dj_ids, listener_ids, max_djs)
                           THEN <<RaiseEntry("TypeError")>>
                           ELSE IF should_step_up(dj_ids, listener_ids, max_djs)
                           THEN <<ApiCall("addDj")>>
                           ELSE <<>>

\* Dj.dj_update, called after the session's handler of the same event: djs,
\* listeners and m are the session's sets and table size as that handler
\* left them.
dj_update(data, djs, listeners, m) ==
    IF \E i \in 1..Len(data.user) : data.user[i] = BotId
    THEN /\ should_auto_skip' =
              IF data.command = "rem_dj" THEN FALSE ELSE should_auto_skip
         /\ end_song_step_down' = end_song_step_down
         /\ out' = <<>>
    ELSE /\ should_auto_skip' = should_auto_skip
         /\ IF should_step_down(djs, listeners, m)
            THEN IF is_playing
                 THEN /\ end_song_step_down' = TRUE
                      /\ out' = <<>>
                 ELSE /\ end_song_step_down' = end_song_step_down
                      /\ out' = <<ApiCall("remDj")>>
            ELSE /\ end_song_step_down' = end_song_step_down
                 /\ out' = IF should_step_up_raises(djs, listeners, m)
                           THEN <<RaiseEntry("TypeError")>>
                           ELSE IF should_step_up(djs, listeners, m)
                           THEN <<ApiCall("addDj")>>
                           ELSE <<>>

\* A variant that keeps the flag after the deferred step-down.
end_song_keep ==
    /\ out' = IF end_song_step_down
                 /\ should_step_down(dj_ids, listener_ids, max_djs)
              THEN <<ApiCall("remDj")>>
              ELSE <<>>
    /\ end_song_step_down' = end_song_step_down
    /\ UNCHANGED should_auto_skip

\* Dj.end_song
end_song ==
    /\ out' = IF end_song_step_down
                 /\ should_step_down(dj_ids, listener_ids, max_djs)
              THEN <<ApiCall("remDj")>>
              ELSE <<>>
    /\ end_song_step_down' = FALSE
    /\ UNCHANGED should_auto_skip

\* Dj.new_song, with the room's current dj already that of the new song.
new_song ==
    /\ out' = IF BotId = currentDjId' /\ should_auto_skip
                 /\ Cardinality(dj_ids) > 1
              THEN <<ApiCall("skip")>>
              ELSE <<>>
    /\ UNCHANGED <<end_song_step_down, should_auto_skip>>

\* The events the Dj plugin registers for.  Each list of users is delivered
\* first to the session's handler and then to the plugin's.
DjUserLists == SeqsUpTo(Users, 1) \cup {<<"u1", BotId>>}
Players == {BotId, "u1"}

NoChat == /\ msg' = NoMsg
          /\ invoked' = <<>>

DjAddDj ==
    /\ \E us \in DjUserLists :
         LET data == UserEvent("add_dj", us) IN
         /\ handle_add_dj(data)
         /\ dj_update(data, dj_ids', listener_ids', max_djs')
    /\ NoChat
    /\ UNCHANGED <<currentDjId, otherThanDj>>
DjRemDj ==
    /\ \E us \in DjUserLists :
         LET data == UserEvent("rem_dj", us) IN
         /\ handle_remove_dj(data)
         /\ dj_update(data, dj_ids', listener_ids', max_djs')
    /\ NoChat
    /\ UNCHANGED <<currentDjId, otherThanDj>>
DjRegistered ==
    /\ \E us \in DjUserLists :
         LET data == UserEvent("registered", us) IN
         /\ handle_user_join(data)
         /\ dj_update(data, dj_ids', listener_ids', max_djs')
    /\ NoChat
    /\ UNCHANGED <<currentDjId, otherThanDj>>
DjDeregistered ==
    /\ \E us \in DjUserLists :
         LET data == UserEvent("deregistered", us) IN
         /\ handle_user_leave(data)
         /\ dj_update(data, dj_ids', listener_ids', max_djs')
    /\ NoChat
    /\ UNCHANGED <<currentDjId, otherThanDj>>
\* A snapshot of a room the bot is in, moderated by ModUsers.
DjRoomChanged ==
    /\ \E us \in SUBSET Users, m \in 1..MaxTable :
         \E djs \in SUBSET us :
            /\ BotId \in us
            /\ handle_room_change(RoomChangedEvent(djs, us, ModUsers, m))
    /\ NoChat
    /\ out' = <<>>
    /\ UNCHANGED <<end_song_step_down, should_auto_skip, currentDjId,
                   otherThanDj>>
DjEndSong ==
    /\ end_song
    /\ event' = [NoEvent EXCEPT !.command = "endsong"]
    /\ fault' = FALSE
    /\ NoChat
    /\ UNCHANGED <<dj_ids, listener_ids, moderator_ids, max_djs, username,
                   currentDjId, otherThanDj>>
DjNewSong ==
    /\ \E d \in Players : currentDjId' = d
    /\ new_song
    /\ event' = [NoEvent EXCEPT !.command = "newsong"]
    /\ fault' = FALSE
    /\ NoChat
    /\ UNCHANGED <<dj_ids, listener_ids, moderator_ids, max_djs, username,
                   otherThanDj>>

-----------------------------------------------------------------------------
(* Part 5a: chat commands *)

\* A chat text is a sequence of pieces: a whitespace character or a group of
\* other characters.  Two groups side by side make a longer word.
IsSpace(c) == c \in {" ", "\t"}

\* str.split(): the words of the text, each the sequence of its groups.
RECURSIVE SplitFrom(_, _, _)
SplitFrom(text, word, parts) ==
    LET closed == IF word = <<>> THEN parts ELSE Append(parts, word) IN
    IF text = <<>> THEN closed
    ELSE IF IsSpace(Head(text)) THEN SplitFrom(Tail(text), <<>>, closed)
    ELSE SplitFrom(Tail(text), Append(word, Head(text)), parts)
Split(text) == SplitFrom(text, <<>>, <<>>)

\* ' '.join(parts)
RECURSIVE Join(_)
Join(parts) ==
    IF parts = <<>> THEN <<>>
    ELSE IF Len(parts) = 1 THEN parts[1]
    ELSE parts[1] \o <<" ">> \o Join(Tail(parts))

\* The string of a word as a key of the command table.  Every key is one
\* group, and no two groups side by side spell a key.
NoKey == "?"
KeyOf(word) == IF Len(word) = 1 THEN word[1] ELSE NoKey

\* The data of a speak or pmmed event, and the part of it reply() reads.
ChatEvent(cmd, sender, name, text) ==
    [command |-> cmd, senderid |-> sender, name |-> name, text |-> text]
Ctx(data) == [command |-> data.command, senderid |-> data.senderid]
Reply(text, data) == ReplyEntry(text, NoName, 0, Ctx(data))

\* LazySusan.is_moderator
is_moderator(data) == data.senderid \in moderator_ids

\* func_dict.get('moderator_required'): the mark the moderator guards leave.
moderator_required(handler) ==
    \/ handler.plugin = "lazysusan" /\ handler.func = "/reload"
    \/ handler.plugin = "Dj" /\ handler.func \in {"play", "stop"}

\* sorted(keys)
KeyOrder ==
    <<"/about", "/autoskip", "/commands", "/djdown", "/djup", "/help",
      "/reload", "/skip">>
Sorted(keys) == SelectSeq(KeyOrder, LAMBDA k : k \in keys)

Silent == out' = <<>>

cmd_about(message, data) ==
    /\ out' = IF message = <<>> THEN <<Reply("about", data)>> ELSE <<>>
    /\ UNCHANGED <<end_song_step_down, should_auto_skip>>

\* A variant that lists every command to every sender.
cmd_commands_all(message, data) ==
    /\ out' = IF message # <<>> THEN <<>>
              ELSE <<[Reply("available_commands", data)
                         EXCEPT !.songs = Sorted(DOMAIN commands)]>>
    /\ UNCHANGED <<end_song_step_down, should_auto_skip>>

cmd_commands(message, data) ==
    LET shown == IF is_moderator(data) THEN DOMAIN commands
                 ELSE {k \in DOMAIN commands : ~moderator_required(commands[k])}
    IN
    /\ out' = IF message # <<>> THEN <<>>
              ELSE <<[Reply("available_commands", data)
                         EXCEPT !.songs = Sorted(shown)]>>
    /\ UNCHANGED <<end_song_step_down, should_auto_skip>>

cmd_help(message, data) ==
    /\ out' = IF message = <<>>
              THEN <<[Reply("doc", data) EXCEPT !.api = "/help"]>>
              ELSE IF KeyOf(message) \in DOMAIN commands
              THEN IF moderator_required(commands[KeyOf(message)])
                      /\ ~is_moderator(data)
                   THEN <<>>
                   ELSE <<[Reply("doc", data) EXCEPT !.api = KeyOf(message)]>>
              ELSE <<[Reply("not_a_valid_command", data)
                         EXCEPT !.name = message]>>
    /\ UNCHANGED <<end_song_step_down, should_auto_skip>>

cmd_reload(message, data) ==
    /\ out' = IF is_moderator(data)
              THEN <<Reply("not_yet_implemented", data)>>
              ELSE <<>>
    /\ UNCHANGED <<end_song_step_down, should_auto_skip>>

\* A variant that skips whenever it is enabled.
auto_skip_always(message, data) ==
    /\ UNCHANGED end_song_step_down
    /\ IF ~no_arg_command(message)
       THEN /\ Silent
            /\ UNCHANGED should_auto_skip
       ELSE /\ should_auto_skip' = ~should_auto_skip
            /\ out' = IF should_auto_skip'
                      THEN <<Reply("keep_seat_warm", data), ApiCall("skip")>>
                      ELSE <<Reply("back", data)>>

\* Dj.auto_skip (/autoskip)
auto_skip(message, data) ==
    /\ UNCHANGED end_song_step_down
    /\ IF ~no_arg_command(message)
       THEN /\ Silent
            /\ UNCHANGED should_auto_skip
       ELSE /\ should_auto_skip' = ~should_auto_skip
            /\ out' = IF should_auto_skip'
                      THEN <<Reply("keep_seat_warm", data)>>
                           \o (IF is_playing /\ Cardinality(dj_ids) > 1
                               THEN <<ApiCall("skip")>>
                               ELSE <<>>)
                      ELSE <<Reply("back", data)>>

\* A variant that joins whenever the bot is not at the table.
play_full(message, data) ==
    /\ UNCHANGED <<end_song_step_down, should_auto_skip>>
    /\ out' = IF ~(admin_or_moderator_required(data)
                   /\ no_arg_command(message))
              THEN <<>>
              ELSE IF is_dj(dj_ids) THEN <<Reply("already_a_dj", data)>>
              ELSE <<ApiCall("addDj")>>

\* Dj.play (/djup).  len(dj_ids) < None is false in Python 2.
play(message, data) ==
    /\ UNCHANGED <<end_song_step_down, should_auto_skip>>
    /\ out' = IF ~(admin_or_moderator_required(data)
                   /\ no_arg_command(message))
              THEN <<>>
              ELSE IF is_dj(dj_ids) THEN <<Reply("already_a_dj", data)>>
              ELSE IF max_djs # NoneVal /\ Cardinality(dj_ids) < max_djs
              THEN <<ApiCall("addDj")>>
              ELSE <<Reply("can_not_do_that_right_now", data)>>

\* Dj.skip_song (/skip)
skip_song(message, data) ==
    /\ UNCHANGED <<end_song_step_down, should_auto_skip>>
    /\ out' = IF ~no_arg_command(message) THEN <<>>
              ELSE IF ~is_playing
              THEN <<Reply("not_currently_playing", data)>>
              ELSE <<ApiCall("skip"), Reply("just_getting_into_it", data)>>

\* Dj.stop (/djdown)
stop(message, data) ==
    /\ UNCHANGED <<end_song_step_down, should_auto_skip>>
    /\ out' = IF ~(admin_or_moderator_required(data)
                   /\ no_arg_command(message))
              THEN <<>>
              ELSE IF ~is_dj(dj_ids)
              THEN <<Reply("not_currently_djing", data)>>
              ELSE <<ApiCall("remDj")>>

\* handler(message, data) for a handler of the command table.
Call(handler, message, data) ==
    CASE handler = BotHandler("/about") -> cmd_about(message, data)
      [] handler = BotHandler("/commands") -> cmd_commands(message, data)
      [] handler = BotHandler("/help") -> cmd_help(message, data)
      [] handler = BotHandler("/reload") -> cmd_reload(message, data)
      [] handler.plugin = "Dj" /\ handler.func = "auto_skip" ->
            auto_skip(message, data)
      [] handler.plugin = "Dj" /\ handler.func = "play" -> play(message, data)
      [] handler.plugin = "Dj" /\ handler.func = "skip_song" ->
            skip_song(message, data)
      [] handler.plugin = "Dj" /\ handler.func = "stop" -> stop(message, data)

Invocation(handler, message, data) ==
    [handler |-> handler, message |-> message, data |-> data]

Ignored ==
    /\ invoked' = <<>>
    /\ Silent
    /\ UNCHANGED <<end_song_step_down, should_auto_skip>>

\* A variant that hands the handler only the first argument.
process_message_first(data) ==
    LET parts == Split(data.text) IN
    IF parts = <<>> THEN Ignored
    ELSE LET command == KeyOf(parts[1])
             message == IF Len(parts) = 1 THEN <<>> ELSE parts[2]
         IN IF command \notin DOMAIN commands THEN Ignored
            ELSE /\ invoked' = <<Invocation(commands[command], message, data)>>
                 /\ Call(commands[command], message, data)

\* LazySusan.process_message
process_message(data) ==
    LET parts == Split(data.text) IN
    IF parts = <<>> THEN Ignored
    ELSE LET command == KeyOf(parts[1])
             message == IF Len(parts) = 1 THEN <<>> ELSE Join(Tail(parts))
         IN IF command \notin DOMAIN commands THEN Ignored
            ELSE /\ invoked' = <<Invocation(commands[command], message, data)>>
                 /\ Call(commands[command], message, data)

handle_pm(data) == process_message(data)

handle_room_message(data) ==
    IF username # "" /\ username # data.name
    THEN process_message(data)
    ELSE Ignored

\* The chat events: a private message from a user, a room message from a
\* user or the echo of the bot's own.
NameOf(u) == IF u = BotId THEN BotName ELSE u
Chat(cmd) == [NoEvent EXCEPT !.command = cmd]

Pm(u, text) ==
    /\ LET data == ChatEvent("pmmed", u, NameOf(u), text) IN
         /\ msg' = data
         /\ handle_pm(data)
    /\ event' = Chat("pmmed")
    /\ fault' = FALSE
    /\ UNCHANGED <<dj_ids, listener_ids, moderator_ids, max_djs, username,
                   currentDjId, otherThanDj>>
Speak(u, text) ==
    /\ LET data == ChatEvent("speak", u, NameOf(u), text) IN
         /\ msg' = data
         /\ handle_room_message(data)
    /\ event' = Chat("speak")
    /\ fault' = FALSE
    /\ UNCHANGED <<dj_ids, listener_ids, moderator_ids, max_djs, username,
                   currentDjId, otherThanDj>>
\* handle_ready and its answer
DjReady ==
    /\ set_username([NoEvent EXCEPT !.command = "userInfo", !.name = BotName])
    /\ NoChat
    /\ Silent
    /\ UNCHANGED <<end_song_step_down, should_auto_skip, currentDjId,
                   otherThanDj>>

\* The texts of the Dj commands.
DjTexts ==
    {<<"/djup">>, <<"/djdown">>, <<"/autoskip">>, <<"/skip">>,
     <<"/autoskip", " ", "x">>, <<"/commands">>}
DjPm == \E u \in Users \ {BotId}, text \in DjTexts : Pm(u, text)
DjSpeak == \E u \in Users, text \in DjTexts : Speak(u, text)
AutoSkipPm == \E u \in Users \ {BotId} : Pm(u, <<"/autoskip">>)

\* Chat texts: nothing or only whitespace, or a first word and up to two
\* more, with whitespace of either kind around and between them.
Blanks == {<<" ">>, <<"\t", " ">>}
FirstWords == {<<"/help">>, <<"/autoskip">>, <<"x">>, <<"/help", "x">>}
MoreWords == {<<>>, <<"/autoskip">>, <<"x">>}
Texts ==
    {<<>>} \cup Blanks \cup
    {lead \o w \o (IF a = <<>> THEN <<>> ELSE sep \o a)
          \o (IF b = <<>> THEN <<>> ELSE sep \o b) \o trail :
        lead \in {<<>>, <<" ">>}, w \in FirstWords, sep \in Blanks,
        a \in MoreWords, b \in {<<>>, <<"x">>}, trail \in {<<>>, <<"\t">>}}
ChatPm == \E text \in Texts : Pm("u2", text)
ChatSpeak == \E u \in {"u1", BotId}, text \in Texts : Speak(u, text)

-----------------------------------------------------------------------------
(* Specifications *)

\* Each initial state is the state after LazySusan.__init__ (lines 66-76),
\* before any plugin is loaded.
InitSession ==
    /\ dj_ids = {}
    /\ listener_ids = {}
    /\ moderator_ids = {}
    /\ max_djs = NoneVal
    /\ username = ""
    /\ event = NoEvent
    /\ fault = FALSE
    /\ commands = [k \in Reserved |-> BotHandler(k)]
    /\ loaded_plugins = [p \in {} |-> 0]
    /\ nloads = 0
    /\ last_load = ""
    /\ selection = <<>>
    /\ options = <<>>
    /\ result = Unset
    /\ playlist = NoName
    /\ playlists = [n \in {} |-> 0]
    /\ heap = [o \in {} |-> {}]
    /\ room_list = {}
    /\ currentSongId = NoSong
    /\ pending = {}
    /\ log = [s \in Slots |-> <<>>]
    /\ end_song_step_down = FALSE
    /\ should_auto_skip = FALSE
    /\ currentDjId = NoDj
    /\ msg = NoMsg
    /\ invoked = <<>>
    /\ out = <<>>

SpecSession == InitSession /\ [][SessionNext]_vars

InitPlugins ==
    /\ dj_ids = {}
    /\ listener_ids = {}
    /\ moderator_ids = {}
    /\ max_djs = NoneVal
    /\ username = ""
    /\ event = NoEvent
    /\ fault = FALSE
    /\ commands = [k \in Reserved |-> BotHandler(k)]
    /\ loaded_plugins = [p \in {} |-> 0]
    /\ nloads = 0
    /\ last_load = ""
    /\ selection = <<>>
    /\ options = <<>>
    /\ result = Unset
    /\ playlist = NoName
    /\ playlists = [n \in {} |-> 0]
    /\ heap = [o \in {} |-> {}]
    /\ room_list = {}
    /\ currentSongId = NoSong
    /\ pending = {}
    /\ log = [s \in Slots |-> <<>>]
    /\ end_song_step_down = FALSE
    /\ should_auto_skip = FALSE
    /\ currentDjId = NoDj
    /\ msg = NoMsg
    /\ invoked = <<>>
    /\ out = <<>>

SpecPlugins == InitPlugins /\ [][PluginsNext]_vars

\* best_match is applied to every input of MatchInputs.
InitMatch ==
    /\ dj_ids = {}
    /\ listener_ids = {}
    /\ moderator_ids = {}
    /\ max_djs = NoneVal
    /\ username = ""
    /\ event = NoEvent
    /\ fault = FALSE
    /\ commands = [k \in Reserved |-> BotHandler(k)]
    /\ loaded_plugins = [p \in {} |-> 0]
    /\ nloads = 0
    /\ last_load = ""
    /\ result = Unset
    /\ \E in \in MatchInputs :
         /\ selection = in[1]
         /\ options = in[2]
    /\ playlist = NoName
    /\ playlists = [n \in {} |-> 0]
    /\ heap = [o \in {} |-> {}]
    /\ room_list = {}
    /\ currentSongId = NoSong
    /\ pending = {}
    /\ log = [s \in Slots |-> <<>>]
    /\ end_song_step_down = FALSE
    /\ should_auto_skip = FALSE
    /\ currentDjId = NoDj
    /\ msg = NoMsg
    /\ invoked = <<>>
    /\ out = <<>>

SpecMatch == InitMatch /\ [][MatchNext]_vars

\* The Playlist plugin with one chain at a time: an event or a command is
\* taken up only when no request is awaiting its response.
Idle == pending = {}

ClearNext ==
    \/ Idle /\ PlRoomChanged
    \/ RespListRooms
    \/ RespPlaylistInit
    \/ RespPlaylistInfo
    \/ Idle /\ CmdClear
    \/ RespClearRemove
    \/ RespClearDelete
    \/ RespClearCreate

AddNext ==
    \/ Idle /\ PlRoomChanged
    \/ Idle /\ NewSong
    \/ RespListRooms
    \/ RespPlaylistInit
    \/ RespPlaylistInfo
    \/ Idle /\ CmdAdd
    \/ Idle /\ CmdList
    \/ RespList

ManageNext ==
    \/ Idle /\ PlRoomChanged
    \/ RespListRooms
    \/ RespPlaylistInit
    \/ RespPlaylistInfo
    \/ Idle /\ CmdCreate
    \/ RespCreate
    \/ Idle /\ CmdDelete
    \/ RespDelete
    \/ Idle /\ CmdSwitch
    \/ RespSwitch

LoadNext ==
    \/ Idle /\ PlRoomChanged
    \/ RespListRooms
    \/ RespPlaylistInit
    \/ RespPlaylistInfo
    \/ Idle /\ CmdLoad
    \/ RespLoadDelete
    \/ RespLoadCreate
    \/ RespLoadAdd
    \/ RespLoadSwitch

ShuffleNext ==
    \/ Idle /\ PlRoomChanged
    \/ RespListRooms
    \/ RespPlaylistInit
    \/ RespPlaylistInfo
    \/ RespPlaylistInfoLong
    \/ Idle /\ CmdShuffle
    \/ RespShuffle

UpdateNext ==
    \/ Idle /\ PlRoomChanged
    \/ RespListRooms
    \/ RespPlaylistInit
    \/ RespPlaylistInfo
    \/ Idle /\ CmdUpdate
    \/ RespRoomInfo
    \/ RespUpdateCreate
    \/ RespUpdateSwitch
    \/ RespUpdateList
    \/ RespUpdateAdd

InitPlaylist ==
    /\ dj_ids = {}
    /\ listener_ids = {}
    /\ moderator_ids = {}
    /\ max_djs = NoneVal
    /\ username = ""
    /\ event = NoEvent
    /\ fault = FALSE
    /\ commands = [k \in Reserved |-> BotHandler(k)]
    /\ loaded_plugins = [p \in {} |-> 0]
    /\ nloads = 0
    /\ last_load = ""
    /\ selection = <<>>
    /\ options = <<>>
    /\ result = Unset
    /\ playlist = NoName
    /\ playlists = [n \in {} |-> 0]
    /\ heap = [o \in {} |-> {}]
    /\ room_list = {}
    /\ currentSongId = NoSong
    /\ pending = {}
    /\ log = [s \in Slots |-> <<>>]
    /\ end_song_step_down = FALSE
    /\ should_auto_skip = FALSE
    /\ currentDjId = NoDj
    /\ msg = NoMsg
    /\ invoked = <<>>
    /\ out = <<>>

SpecClear == InitPlaylist /\ [][ClearNext]_vars
SpecAdd == InitPlaylist /\ [][AddNext]_vars
SpecManage == InitPlaylist /\ [][ManageNext]_vars
SpecLoad == InitPlaylist /\ [][LoadNext]_vars
SpecUpdate == InitPlaylist /\ [][UpdateNext]_vars
SpecShuffle == InitPlaylist /\ [][ShuffleNext]_vars

\* The Playlist plugin with chains that overlap: a command is taken up while
\* requests of the initialisation or of another command await their response,
\* and the responses arrive in any order.  The commands come from the
\* moderator u1 in the room chat, each chain slot takes one command (the first
\* slot that has taken none), and the room list request stays unanswered.
ByModerator == [command |-> "speak", senderid |-> "u1"]
Unused(s) == log[s] = <<>>
CanTake == \E s \in 1..MaxChains : Unused(s)
OverlapSlot == CHOOSE s \in 1..MaxChains : Unused(s) /\ \A u \in 1..(s - 1) : ~Unused(u)

OverlapList ==
    /\ CanTake
    /\ list(OverlapSlot, <<>>, ByModerator)
    /\ UNCHANGED <<room_list, currentSongId, sessVars>>
    /\ UNCHANGED otherThanPlaylist

OverlapSwitch ==
    /\ CanTake
    /\ \E m \in {Default, Rock} : switch(OverlapSlot, m, ByModerator)
    /\ UNCHANGED <<room_list, currentSongId, sessVars>>
    /\ UNCHANGED otherThanPlaylist

OverlapDelete ==
    /\ CanTake
    /\ \E m \in {Default, Rock} : delete(OverlapSlot, m, ByModerator)
    /\ UNCHANGED <<room_list, currentSongId, sessVars>>
    /\ UNCHANGED otherThanPlaylist

OverlapClear ==
    /\ CanTake
    /\ clear(OverlapSlot, <<>>, ByModerator)
    /\ UNCHANGED <<room_list, currentSongId, sessVars>>
    /\ UNCHANGED otherThanPlaylist

OverlapNext ==
    \/ Idle /\ PlRoomChanged
    \/ RespPlaylistInit
    \/ RespPlaylistInfo
    \/ OverlapList
    \/ RespList
    \/ OverlapSwitch
    \/ RespSwitch
    \/ OverlapDelete
    \/ RespDelete
    \/ OverlapClear
    \/ RespClearRemove
    \/ RespClearDelete
    \/ RespClearCreate

SpecOverlap == InitPlaylist /\ [][OverlapNext]_vars

\* The Dj plugin, loaded alone by the constructor.
InitDj ==
    /\ dj_ids = {}
    /\ listener_ids = {}
    /\ moderator_ids = {}
    /\ max_djs = NoneVal
    /\ username = ""
    /\ event = NoEvent
    /\ fault = FALSE
    /\ commands = load_command_plugin([k \in Reserved |-> BotHandler(k)],
                                      "Dj", 1).commands
    /\ loaded_plugins = [p \in {"Dj"} |-> 1]
    /\ nloads = 1
    /\ last_load = "Dj"
    /\ selection = <<>>
    /\ options = <<>>
    /\ result = Unset
    /\ playlist = NoName
    /\ playlists = [n \in {} |-> 0]
    /\ heap = [o \in {} |-> {}]
    /\ room_list = {}
    /\ currentSongId = NoSong
    /\ pending = {}
    /\ log = [s \in Slots |-> <<>>]
    /\ end_song_step_down = FALSE
    /\ should_auto_skip = FALSE
    /\ currentDjId = NoDj
    /\ msg = NoMsg
    /\ invoked = <<>>
    /\ out = <<>>

\* The Dj plugin's events, with /autoskip as the only command.
DjNext ==
    \/ DjAddDj \/ DjRemDj \/ DjRegistered \/ DjDeregistered
    \/ DjRoomChanged \/ DjEndSong \/ DjNewSong \/ AutoSkipPm

\* The Dj plugin's commands in the rooms the snapshots describe.
DjCmdNext == DjRoomChanged \/ DjNewSong \/ DjReady \/ DjPm \/ DjSpeak

\* The dispatch of chat texts.
DispatchNext == DjReady \/ ChatPm \/ ChatSpeak

SpecDj == InitDj /\ [][DjNext]_vars
SpecDjCmd == InitDj /\ [][DjCmdNext]_vars
SpecDispatch == InitDj /\ [][DispatchNext]_vars

-----------------------------------------------------------------------------
(* Claims about the session's membership state (SpecSession) *)

\* What a removal event naming the ids of the list us may do to its set: only
\* named ids leave it, and all of them leave it when each is named once and
\* all of them were members.
Removed(old, new, us) ==
    /\ new \subseteq old
    /\ old \ new \subseteq Range(us)
    /\ (Range(us) \subseteq old /\ Cardinality(Range(us)) = Len(us)) =>
          new = old \ Range(us)

\* C1: every handler step changes the session as its event says.  roomChanged
\* replaces dj_ids, listener_ids, moderator_ids and max_djs by the snapshot's
\* values whatever they were; add_dj / registered / new_moderator add exactly
\* the named ids to their own set; rem_dj / deregistered / rem_moderator take
\* only named ids out of their own set (all of them when each is named once
\* and all were members);
\* every incremental event leaves the other sets, max_djs and username as
\* they were.  Hence the sets always equal the last snapshot updated by the
\* events after it.
C1_MembershipFollowsEvents ==
    [][LET e == event' IN
       /\ e.command = "roomChanged" =>
            /\ dj_ids' = e.djs
            /\ listener_ids' = e.users
            /\ moderator_ids' = e.moderator_id
            /\ max_djs' = e.max_djs
            /\ username' = username
       /\ e.command = "add_dj" =>
            /\ dj_ids' = dj_ids \cup Range(e.user)
            /\ UNCHANGED <<listener_ids, moderator_ids, max_djs, username>>
       /\ e.command = "rem_dj" =>
            /\ Removed(dj_ids, dj_ids', e.user)
            /\ UNCHANGED <<listener_ids, moderator_ids, max_djs, username>>
       /\ e.command = "registered" =>
            /\ listener_ids' = listener_ids \cup Range(e.user)
            /\ UNCHANGED <<dj_ids, moderator_ids, max_djs, username>>
       /\ e.command = "deregistered" =>
            /\ Removed(listener_ids, listener_ids', e.user)
            /\ UNCHANGED <<dj_ids, moderator_ids, max_djs, username>>
       /\ e.command = "new_moderator" =>
            /\ moderator_ids' = moderator_ids \cup {e.userid}
            /\ UNCHANGED <<dj_ids, listener_ids, max_djs, username>>
       /\ e.command = "rem_moderator" =>
            /\ Removed(moderator_ids, moderator_ids', <<e.userid>>)
            /\ UNCHANGED <<dj_ids, listener_ids, max_djs, username>>
      ]_vars

\* A snapshot was taken over a non-empty state and later a two-user rem_dj
\* was applied without fault.
C1_Witness ==
    /\ event.command = "rem_dj"
    /\ Len(event.user) = 2
    /\ ~fault
    /\ max_djs # NoneVal
    /\ dj_ids # {}
    /\ listener_ids # {}

-----------------------------------------------------------------------------
(* Claims about plugin registration (SpecPlugins) *)

\* C2: a command plugin with a key that is already in the table is rejected
\* as a whole: the table and loaded_plugins stay as they were.  No load ever
\* rebinds or removes a key, a plugin without collision is recorded, the
\* reserved keys stay bound to the bot's own handlers and every other key is
\* bound to a handler of the recorded instance of its plugin.
C2_CollisionRejectsPlugin ==
    [][nloads' = nloads + 1 =>
        LET p == last_load'
            collides == /\ IsCommandPlugin(p)
                        /\ DOMAIN COMMANDS(p) \cap DOMAIN commands # {}
        IN /\ collides => commands' = commands /\ loaded_plugins' = loaded_plugins
           /\ ~collides =>
                /\ p \in DOMAIN loaded_plugins'
                /\ \A k \in DOMAIN COMMANDS(p) :
                     /\ k \in DOMAIN commands'
                     /\ commands'[k].plugin = p
                     /\ commands'[k].func = COMMANDS(p)[k]
           /\ \A k \in DOMAIN commands :
                k \in DOMAIN commands' /\ commands'[k] = commands[k]
           /\ \A k \in Reserved : commands'[k] = BotHandler(k)
           /\ \A k \in DOMAIN commands' \ Reserved :
                /\ commands'[k].plugin \in DOMAIN loaded_plugins'
                /\ commands'[k].inst = loaded_plugins'[commands'[k].plugin]
      ]_vars

\* Skipper (/skip, /next) was rejected after Dj had bound /skip: /next is not
\* bound and Skipper is not recorded.
C2_Witness ==
    /\ last_load = "Skipper"
    /\ "Dj" \in DOMAIN loaded_plugins
    /\ "Skipper" \notin DOMAIN loaded_plugins
    /\ "/next" \notin DOMAIN commands
    /\ commands["/skip"].plugin = "Dj"

-----------------------------------------------------------------------------
(* Claims about best_match (SpecMatch) *)

IsPrefixOf(sel, x) == \E n \in 0..Len(x) : sel = [i \in 1..n |-> x[i]]
IsInfixOf(sel, x) ==
    \E a \in 0..Len(x) :
        /\ a + Len(sel) <= Len(x)
        /\ \A k \in 1..Len(sel) : x[a + k] = sel[k]

\* l lists exactly the members of S, each once.
ListsExactly(l, S) == Range(l) = S /\ Len(l) = Cardinality(S)

\* C3: best_match returns the selection itself when it is an option; else
\* the one option that starts with it when there is exactly one; else the
\* list of exactly the options that start with it when there are several;
\* else the list of exactly the options that contain it (a list also when
\* it has one element or none).  For the options rock, rockabilly, pop:
\* 'rock' gives 'rock', 'ro' gives the list of rock and rockabilly, 'billy'
\* gives the list of rockabilly.
C3_BestMatch ==
    result # Unset =>
        LET opts == Range(options)
            starts == {x \in opts : IsPrefixOf(selection, x)}
            holds == {x \in opts : IsInfixOf(selection, x)}
        IN /\ IF selection \in opts THEN result = Single(selection)
              ELSE IF Cardinality(starts) = 1
                   THEN result.kind = "name" /\ result.name \in starts
              ELSE IF starts # {}
                   THEN result.kind = "list" /\ ListsExactly(result.list, starts)
              ELSE result.kind = "list" /\ ListsExactly(result.list, holds)
           /\ opts = {Rock, Rockabilly, Pop} =>
                /\ selection = Rock => result = Single(Rock)
                /\ selection = <<"r", "o">> =>
                     /\ result.kind = "list"
                     /\ Range(result.list) = {Rock, Rockabilly}
                /\ selection = <<"b", "i", "l", "l", "y">> =>
                     result = List(<<Rockabilly>>)

\* 'billy' was matched against rock, rockabilly, pop.
C3_Witness ==
    /\ result = List(<<Rockabilly>>)
    /\ selection = <<"b", "i", "l", "l", "y">>
    /\ Range(options) = {Rock, Rockabilly, Pop}


\* What the claims about the Playlist plugin read off a chain's log.
ChainSlots == 1..MaxChains
IsChain(L, c) == L # <<>> /\ L[1].t = "cmd" /\ L[1].api = c
Of(L, t) == {i \in DOMAIN L : L[i].t = t}
Idx(L, t, api) == {i \in DOMAIN L : L[i].t = t /\ L[i].api = api}
RepliesOf(L, text) == {i \in DOMAIN L : L[i].t = "reply" /\ L[i].text = text}
InFlight(pend, s) == {r \in pend : r.slot = s}
Extends(L2, L) == Len(L2) > Len(L) /\ SubSeq(L2, 1, Len(L)) = L

\* A clear chain by removal all of whose responses so far were successful
\* and named a song of the mirror.
SuccessPath(L) ==
    /\ IsChain(L, "/plclear")
    /\ Idx(L, "req", "playlistRemove") # {}
    /\ \A i \in Of(L, "resp") : L[i].ok
    /\ Of(L, "raise") = {}

\* C4: on the success path of a clear chain by removal over a mirror of n
\* songs, each response shrinks the mirror by exactly one, at most one remove
\* request is outstanding, every request in flight accounts for n as the
\* mirror's size plus the responses so far, the chain ends exactly when the
\* mirror is empty, then n requests have been issued and 'Cleared' is
\* replied once, as the last thing the chain does.
C4_ClearChainSucceeds ==
    [][\A s \in ChainSlots :
         LET L == log[s]
             L2 == log'[s]
             k == Cardinality(Idx(L2, "resp", "playlistRemove"))
             q == Cardinality(Idx(L2, "req", "playlistRemove"))
             before == Cardinality(Mirror(playlist))
             after == Cardinality(heap'[playlists'[playlist']])
             now == InFlight(pending', s)
         IN (L2 # L /\ SuccessPath(L2)) =>
              /\ Cardinality(now) <= 1
              /\ q = k + Cardinality(now)
              /\ \A r \in now : r.api = "playlistRemove" /\ r.count = after + k
              /\ (k = 0) => (after = before /\ after >= 1 /\ now # {})
              /\ (k > 0) => /\ after = before - 1
                            /\ InFlight(pending, s) # {}
                            /\ \A r \in InFlight(pending, s) :
                                  /\ r.count = after + k
                                  /\ (now = {}) => (q = r.count /\ k = r.count)
              /\ (now = {}) <=> (after = 0)
              /\ (after = 0) => /\ RepliesOf(L2, "cleared") = {Len(L2)}
                                /\ L2[Len(L2)].ctx = L2[1].ctx
                                /\ \A i \in Of(L2, "req") \cup Of(L2, "resp") :
                                      i < Len(L2)
              /\ (after > 0) => RepliesOf(L2, "cleared") = {}]_vars

\* C4 witness: a mirror of three songs has been cleared by three removals.
C4_Witness ==
    \E s \in ChainSlots :
        /\ SuccessPath(log[s])
        /\ Cardinality(Idx(log[s], "resp", "playlistRemove")) = 3
        /\ RepliesOf(log[s], "cleared") = {Len(log[s])}
        /\ Mirror(playlist) = {}

\* /plclear was called by a moderator, without argument, on a non-empty mirror.
ClearStarts(L2) ==
    /\ IsChain(L2, "/plclear")
    /\ Of(L2, "resp") = {}
    /\ no_arg_command(L2[1].name)
    /\ admin_or_moderator_required(L2[1].ctx)
    /\ HasMirror(playlist)
    /\ Mirror(playlist) # {}

\* C5 as stated: /plclear on a non-empty mirror issues remove-head requests
\* and no other kind of request, whatever the name of the current playlist.
C5_Original ==
    [][\A s \in ChainSlots :
         LET L2 == log'[s] IN
         (L2 # log[s] /\ IsChain(L2, "/plclear")) =>
            /\ ClearStarts(L2) => Of(L2, "req") # {}
            /\ \A i \in Of(L2, "req") : L2[i].api = "playlistRemove"]_vars

\* C5: /plclear on a non-empty mirror starts a chain with one request in
\* flight at a time.  When the current playlist is 'default' the chain is
\* remove-head requests only, each but the first issued on a successful
\* response, and it is over when the mirror is empty, a response reports
\* failure or the handler raises.  When the current playlist has another name
\* no remove request is issued: the chain is a delete request and, on its
\* success, a create request for the same name.
C5_ClearByKind ==
    [][\A s \in ChainSlots :
         LET L2 == log'[s]
             reqs == Of(L2, "req")
             now == InFlight(pending', s)
         IN (L2 # log[s] /\ IsChain(L2, "/plclear")) =>
              /\ ClearStarts(L2) => (Len(L2) = 2 /\ reqs = {2})
              /\ Cardinality(now) <= 1
              /\ reqs # {} =>
                   /\ 2 \in reqs
                   /\ (L2[2].name = Default) =>
                        /\ \A i \in reqs : /\ L2[i].api = "playlistRemove"
                                           /\ L2[i].idx = 0
                                           /\ L2[i].name = Default
                        /\ \A i \in reqs \ {2} :
                              \E j \in Idx(L2, "resp", "playlistRemove") :
                                  /\ j < i
                                  /\ L2[j].ok
                                  /\ \A m \in (j + 1)..(i - 1) : L2[m].t = "reply"
                        /\ (now # {}) => /\ L2[Len(L2)].t = "req"
                                         /\ heap'[playlists'[Default]] # {}
                        /\ (now = {}) =>
                              /\ L2[Len(L2)].text \in
                                    {"cleared", "failure_clearing", "KeyError"}
                              /\ (L2[Len(L2)].text = "cleared") <=>
                                    (heap'[playlists'[Default]] = {})
                   /\ (L2[2].name # Default) =>
                        /\ Idx(L2, "req", "playlistRemove") = {}
                        /\ L2[2].api = "playlistDelete"
                        /\ reqs \subseteq {2, 4}
                        /\ (4 \in reqs) => /\ L2[4].api = "playlistCreate"
                                           /\ L2[4].name = L2[2].name
                                           /\ L2[3].t = "resp"
                                           /\ L2[3].ok]_vars

\* C5 witness: a playlist that is not 'default' was cleared by a delete and
\* a create request.
C5_Witness ==
    \E s \in ChainSlots :
        /\ IsChain(log[s], "/plclear")
        /\ Idx(log[s], "req", "playlistDelete") = {2}
        /\ Idx(log[s], "req", "playlistCreate") = {4}
        /\ RepliesOf(log[s], "cleared") = {Len(log[s])}
        /\ playlist # Default

\* C6: once a remove-head response of a clear chain reports failure, that
\* response left the mirror as it was, the chain's last entry is the one
\* failure reply, which states the number of songs still in the mirror and
\* goes to the context of the command, and the chain has no request in
\* flight and no 'Cleared' reply.
C6_ClearChainFails ==
    [][\A s \in ChainSlots :
         LET L2 == log'[s]
             bad == {i \in Idx(L2, "resp", "playlistRemove") : ~L2[i].ok}
             mirror == heap'[playlists'[playlist']]
         IN (IsChain(L2, "/plclear") /\ bad # {}) =>
              /\ bad = {Len(L2) - 1}
              /\ RepliesOf(L2, "failure_clearing") = {Len(L2)}
              /\ L2[Len(L2)].ctx = L2[1].ctx
              /\ L2[Len(L2)].n = Cardinality(mirror)
              /\ RepliesOf(L2, "cleared") = {}
              /\ InFlight(pending', s) = {}
              /\ (L2 # log[s]) => /\ mirror = Mirror(playlist)
                                  /\ playlists' = playlists
                                  /\ playlist' = playlist]_vars

\* C6 witness: a clear chain failed at its second removal, two songs left.
C6_Witness ==
    \E s \in ChainSlots :
        /\ IsChain(log[s], "/plclear")
        /\ Cardinality(Idx(log[s], "resp", "playlistRemove")) = 2
        /\ RepliesOf(log[s], "failure_clearing") = {Len(log[s])}
        /\ log[s][Len(log[s])].n = 2
        /\ Cardinality(Mirror(playlist)) = 2

\* C7 as stated: in a /plswitch, /plload or /plupdate chain a create, delete,
\* switch or add response that reports failure is followed by one reply
\* with that response's error message to the command's context, and by
\* nothing else of the chain.
C7_Original ==
    \A s \in ChainSlots :
        LET L == log[s] IN
        (IsChain(L, "/plswitch") \/ IsChain(L, "/plload") \/ IsChain(L, "/plupdate")) =>
            \A i \in Of(L, "resp") :
                (/\ ~L[i].ok
                 /\ L[i].api \in {"playlistCreate", "playlistDelete",
                                  "playlistSwitch", "playlistAdd"}) =>
                    /\ Len(L) = i + 1
                    /\ L[i + 1].t = "reply"
                    /\ L[i + 1].text = "err"
                    /\ L[i + 1].n = i
                    /\ L[i + 1].ctx = L[1].ctx
                    /\ InFlight(pending, s) = {}

\* C8 as stated: every add request of a /plupdate chain is for a song of the
\* room's song log at position 0, is the only request in flight, comes in
\* ascending score order, is for a song that was not in the mirror before
\* and is in it from then on; the final reply reports the number of songs
\* added.
C8_Original ==
    [][\A s \in ChainSlots :
         LET L == log[s]
             L2 == log'[s]
             adds == Idx(L2, "req", "playlistAdd")
             added == {L2[j].song : j \in
                          {j \in adds : j < Len(L2) /\ L2[j + 1].t = "resp"
                                           /\ L2[j + 1].ok}}
         IN (IsChain(L2, "/plupdate") /\ Extends(L2, L)) =>
              \A i \in (Len(L) + 1)..Len(L2) :
                 /\ (i \in adds) =>
                      /\ L2[i].idx = 0
                      /\ \E j \in Idx(L2, "resp", "roomInfo") :
                            L2[i].song \in Range(L2[j].songs)
                      /\ L2[i].song \in heap'[playlists'[playlist']]
                      /\ (L2[i - 1].api = "playlistAdd") =>
                            L2[i].song \notin Mirror(playlist)
                      /\ \A j \in adds : j < i =>
                            Score[L2[j].song] <= Score[L2[i].song]
                      /\ i = Len(L2)
                      /\ Cardinality(InFlight(pending', s)) = 1
                 /\ (i \in RepliesOf(L2, "added")) =>
                      L2[i].n = Cardinality(added)]_vars

\* The remote playlist that the add requests of a chain's first k entries
\* build, head first, when each inserts its song at its position.
RECURSIVE RemoteOrder(_, _)
RemoteOrder(L, k) ==
    IF k = 0 THEN <<>>
    ELSE LET q == RemoteOrder(L, k - 1)
             e == L[k]
         IN IF e.t = "req" /\ e.api = "playlistAdd"
            THEN SubSeq(q, 1, e.idx) \o <<e.song>> \o SubSeq(q, e.idx + 1, Len(q))
            ELSE q

\* The scenario of songs A, B, C with scores 5, 1, 3, none in the mirror:
\* a finished /plupdate chain on that song log that added three songs.
HistoryScenario(L) ==
    /\ IsChain(L, "/plupdate")
    /\ \E i \in Idx(L, "resp", "roomInfo") : L[i].songs = <<"A", "B", "C">>
    /\ RepliesOf(L, "added") = {Len(L)}
    /\ L[Len(L)].n = 3

\* C9 as stated: the final order is (B, C, A), head to tail.
C9_Original ==
    \A s \in ChainSlots :
        HistoryScenario(log[s]) =>
            RemoteOrder(log[s], Len(log[s])) = <<"B", "C", "A">>

\* C9: songs A, B, C with scores 5, 1, 3, none in the mirror, inserted as
\* the update chain does, each at position 0 in ascending score order, give
\* the final order (A, C, B), head to tail: the highest score is at the head.
C9_HeadInsertion ==
    \A s \in ChainSlots :
        HistoryScenario(log[s]) =>
            RemoteOrder(log[s], Len(log[s])) = <<"A", "C", "B">>

\* C9 witness: the scenario's chain has finished.
C9_Witness ==
    \E s \in ChainSlots :
        /\ HistoryScenario(log[s])
        /\ Cardinality(Idx(log[s], "req", "playlistAdd")) = 3

\* /pladd without argument when nothing is playing (quiet), or when the
\* current song is in the mirror (known).
AddQuiet == currentSongId = NoSong
AddKnown ==
    currentSongId # NoSong /\ HasMirror(playlist) /\ currentSongId \in Mirror(playlist)

\* C10 as stated: in both cases one reply, no request of any kind, and the
\* mirrors unchanged.
C10_Original ==
    [][\A s \in ChainSlots :
         LET L2 == log'[s] IN
         (/\ L2 # log[s]
          /\ IsChain(L2, "/pladd")
          /\ no_arg_command(L2[1].name)
          /\ (AddQuiet \/ AddKnown)) =>
            /\ Cardinality(Of(L2, "reply")) = 1
            /\ Of(L2, "req") = {}
            /\ heap' = heap
            /\ playlists' = playlists]_vars

\* C10: /pladd when nothing is playing sends one reply and no request; when
\* the current song is already in the mirror it sends one reply and one
\* request, the vote for the song (bop), and no playlist request.  In both
\* cases the mirrors are unchanged and nothing is left in flight.
C10_AddNoOp ==
    [][\A s \in ChainSlots :
         LET L2 == log'[s] IN
         (/\ L2 # log[s]
          /\ IsChain(L2, "/pladd")
          /\ no_arg_command(L2[1].name)
          /\ (AddQuiet \/ AddKnown)) =>
            /\ Of(L2, "reply") = {2}
            /\ L2[2].ctx = L2[1].ctx
            /\ AddQuiet => (L2[2].text = "no_song_playing" /\ Of(L2, "req") = {})
            /\ AddKnown => /\ L2[2].text = "already_have"
                           /\ Of(L2, "req") = Idx(L2, "req", "bop")
                           /\ Cardinality(Of(L2, "req")) = 1
            /\ heap' = heap
            /\ playlists' = playlists
            /\ pending' = pending]_vars

\* C10 witness: /pladd answered that the song is already there, and voted.
C10_Witness ==
    \E s \in ChainSlots :
        /\ IsChain(log[s], "/pladd")
        /\ RepliesOf(log[s], "already_have") = {2}
        /\ currentSongId \in Mirror(playlist)

\* /pladd without argument while a song is playing that the mirror of the
\* current playlist does not hold.
AddNew ==
    currentSongId # NoSong /\ HasMirror(playlist) /\ currentSongId \notin Mirror(playlist)

\* C11 as stated: /pladd for a song that is not in the current mirror issues
\* one add request for it, to the playlist being mirrored at index = the
\* mirror's size, and the mirror holds the song when the handler returns,
\* whichever playlist is active.
C11_Original ==
    [][\A s \in ChainSlots :
         LET L2 == log'[s]
             adds == Idx(L2, "req", "playlistAdd")
         IN (/\ L2 # log[s]
             /\ IsChain(L2, "/pladd")
             /\ no_arg_command(L2[1].name)
             /\ AddNew) =>
               /\ Cardinality(adds) = 1
               /\ \A i \in adds : /\ L2[i].song = currentSongId
                                  /\ L2[i].idx = Cardinality(Mirror(playlist))
                                  /\ L2[i].name = playlist
               /\ currentSongId \in heap'[playlists'[playlist']]]_vars

\* Where item x of 0..n-1 stands once the first k items of order have been
\* moved to positions 0..k-1, the others keeping their order.
SimPos(order, k, x) ==
    LET front == {order[j] : j \in 1..k} IN
    IF x \in front
    THEN (CHOOSE j \in 1..k : order[j] = x) - 1
    ELSE k + Cardinality({y \in 0..(x - 1) : y \notin front})

\* C12: /plshuffle on a mirror of n songs replies 'too few items' and issues
\* no request when n < 2.  Otherwise it samples m = min(n, 10) distinct
\* indices of 0..n-1 and issues reorder requests only, one in flight at a
\* time, each but the first on a successful response; the k-th request
\* (k from 0) has destination k and as source the simulated position of the
\* k-th sampled item, which lies in k..n-1.  While responses are successful
\* the chain ends after exactly m requests with one 'completed' reply; a
\* failed response is followed by one error reply and nothing else.  No step
\* of the chain changes a mirror.
C12_Shuffle ==
    [][\A s \in ChainSlots :
         LET L2 == log'[s]
             n == Cardinality(Mirror(playlist))
             m == IF n < ShuffleMax THEN n ELSE ShuffleMax
             reqs == Idx(L2, "req", "playlistReorder")
             resps == Idx(L2, "resp", "playlistReorder")
             bad == {i \in resps : ~L2[i].ok}
             now == InFlight(pending', s)
             last == Len(L2)
         IN (/\ L2 # log[s]
             /\ IsChain(L2, "/plshuffle")
             /\ no_arg_command(L2[1].name)
             /\ HasMirror(playlist)) =>
               /\ heap' = heap /\ playlists' = playlists /\ playlist' = playlist
               /\ (n < 2) => /\ last = 2
                             /\ RepliesOf(L2, "too_few") = {2}
                             /\ L2[2].ctx = L2[1].ctx
                             /\ now = {}
               /\ (n >= 2) =>
                    /\ L2[2].t = "sample"
                    /\ Len(L2[2].songs) = m
                    /\ Range(L2[2].songs) \subseteq 0..(n - 1)
                    /\ Cardinality(Range(L2[2].songs)) = m
                    /\ Of(L2, "req") = reqs
                    /\ Cardinality(now) <= 1
                    /\ Cardinality(reqs) = Cardinality(resps) + Cardinality(now)
                    /\ \A i \in reqs :
                          LET k == Cardinality({j \in reqs : j < i}) IN
                          /\ k < m
                          /\ L2[i].n = k
                          /\ k <= L2[i].idx
                          /\ L2[i].idx < n
                          /\ L2[i].idx = SimPos(L2[2].songs, k, L2[2].songs[k + 1])
                          /\ (i = 3) \/ (L2[i - 1].t = "resp" /\ L2[i - 1].ok)
                    /\ (bad = {}) =>
                          /\ (now = {}) <=> (Cardinality(resps) = m)
                          /\ (now = {}) => /\ Cardinality(reqs) = m
                                           /\ Of(L2, "reply") = {last}
                                           /\ L2[last].text = "completed"
                                           /\ L2[last].ctx = L2[1].ctx
                          /\ (now # {}) => (Of(L2, "reply") = {} /\ L2[last].t = "req")
                    /\ (bad # {}) =>
                          /\ bad = {last - 1}
                          /\ Of(L2, "reply") = {last}
                          /\ L2[last].text = "error_shuffling"
                          /\ L2[last].ctx = L2[1].ctx
                          /\ now = {}]_vars

\* C12 witness: a mirror of eleven songs was shuffled by ten reorder
\* requests, one of them from a position the moves before it had changed.
C12_Witness ==
    \E s \in ChainSlots :
        LET L == log[s]
            reqs == Idx(L, "req", "playlistReorder")
        IN /\ IsChain(L, "/plshuffle")
           /\ HasMirror(playlist)
           /\ Cardinality(Mirror(playlist)) = 11
           /\ Cardinality(reqs) = 10
           /\ RepliesOf(L, "completed") = {Len(L)}
           /\ \E i \in reqs : L[i].idx # L[2].songs[L[i].n + 1]

-----------------------------------------------------------------------------
(* Claims about the Dj plugin (SpecDj, SpecDjCmd) *)

\* A step that delivers one of the four membership events, and whether the
\* event names the bot.
MembershipStep ==
    event'.command \in {"add_dj", "rem_dj", "registered", "deregistered"}
NamesBot(data) == \E i \in 1..Len(data.user) : data.user[i] = BotId
EndSongStep == event'.command = "endsong"
Leaves(o) == \E i \in 1..Len(o) : o[i] = ApiCall("remDj")
Joins(o) == \E i \in 1..Len(o) : o[i] = ApiCall("addDj")
StepDownBefore == should_step_down(dj_ids, listener_ids, max_djs)
StepDownAfter == should_step_down(dj_ids', listener_ids', max_djs')
StepUpAfter == should_step_up(dj_ids', listener_ids', max_djs')

\* What every end-of-song event does: one leave request if and only if a
\* step-down is pending and should_step_down holds now, and the pending flag
\* is cleared.
EndSongRule ==
    EndSongStep =>
        /\ out' = IF end_song_step_down /\ StepDownBefore
                  THEN <<ApiCall("remDj")>>
                  ELSE <<>>
        /\ end_song_step_down' = FALSE

\* C13 as stated: whenever a membership event makes should_step_down true
\* while the bot is the playing dj, the event issues no leave request and
\* sets the pending flag; the next end-of-song event leaves if and only if
\* should_step_down still holds, and clears the flag.
C13_Original ==
    [][/\ (MembershipStep /\ ~StepDownBefore /\ StepDownAfter /\ is_playing) =>
             (~Leaves(out') /\ end_song_step_down')
       /\ EndSongRule]_vars

\* C13, for the events that do not name the bot: when should_step_down holds
\* after a membership event that does not name the bot while the bot is the
\* playing dj, the event issues no request and sets the pending flag.  An
\* event that names the bot issues no request and leaves the flag as it was.
\* The next end-of-song event issues one leave request if and only if the
\* flag is set and should_step_down holds then, and clears the flag.
C13_Deferral ==
    [][/\ (MembershipStep /\ ~NamesBot(event') /\ StepDownAfter /\ is_playing) =>
             (out' = <<>> /\ end_song_step_down')
       /\ (MembershipStep /\ NamesBot(event')) =>
             (out' = <<>> /\ end_song_step_down' = end_song_step_down)
       /\ EndSongRule]_vars

\* A deferred step-down was carried out at the end of the song.
C13_Witness ==
    /\ event.command = "endsong"
    /\ out = <<ApiCall("remDj")>>
    /\ ~end_song_step_down

\* C14 as stated: after every membership event the plugin has acted on the
\* two predicates as they are for the session's sets after the event: a leave
\* request or the pending flag when should_step_down holds, a join request
\* when should_step_up holds.
C14_Original ==
    [][MembershipStep =>
          /\ StepDownAfter => (Leaves(out') \/ end_song_step_down')
          /\ StepUpAfter => Joins(out')]_vars

\* C14, for the events that do not name the bot: after a membership event
\* that does not name the bot, exactly the action the predicates call for on
\* the session's sets after the event was taken: with should_step_down the
\* pending flag is set when the bot is playing and one leave request is
\* issued when it is not; otherwise with should_step_up one join request is
\* issued (while the table size is unknown its evaluation can raise, and
\* nothing is issued); otherwise nothing.  An event that names the bot is
\* skipped: nothing is issued, and rem_dj switches auto-skip off.
C14_Recomputed ==
    [][/\ (MembershipStep /\ ~NamesBot(event')) =>
             /\ should_auto_skip' = should_auto_skip
             /\ IF StepDownAfter
                THEN IF is_playing
                     THEN out' = <<>> /\ end_song_step_down'
                     ELSE /\ out' = <<ApiCall("remDj")>>
                          /\ end_song_step_down' = end_song_step_down
                ELSE /\ end_song_step_down' = end_song_step_down
                     /\ max_djs' # NoneVal =>
                          out' = IF StepUpAfter THEN <<ApiCall("addDj")>>
                                 ELSE <<>>
                     /\ max_djs' = NoneVal => ~Joins(out') /\ ~Leaves(out')
       /\ (MembershipStep /\ NamesBot(event')) =>
             /\ out' = <<>>
             /\ should_auto_skip' =
                  (should_auto_skip /\ event'.command # "rem_dj")]_vars

\* A membership event that does not name the bot made the bot join the table.
C14_Witness ==
    /\ event.command \in {"add_dj", "rem_dj", "registered", "deregistered"}
    /\ ~NamesBot(event)
    /\ out = <<ApiCall("addDj")>>
    /\ should_step_up(dj_ids, listener_ids, max_djs)

\* The two predicates as the specification writes them, for a known table
\* size.
StepDownSpec ==
    /\ BotId \in dj_ids
    /\ (Cardinality(listener_ids) <= 1 \/ Cardinality(dj_ids) >= max_djs)
StepUpSpec ==
    /\ BotId \notin dj_ids
    /\ Cardinality(listener_ids) > 1
    /\ \A k \in {2, max_djs - 1} : Cardinality(dj_ids) < k

\* C15: in every state with max_djs >= 2 the plugin's predicates are the two
\* formulas of the specification and are not both true, and no membership
\* event makes the bot issue both a leave and a join request.
C15_Exclusive ==
    /\ [](max_djs >= 2 =>
            /\ should_step_down(dj_ids, listener_ids, max_djs) = StepDownSpec
            /\ should_step_up(dj_ids, listener_ids, max_djs) = StepUpSpec
            /\ ~(StepDownSpec /\ StepUpSpec))
    /\ [][MembershipStep => ~(Leaves(out') /\ Joins(out'))]_vars

\* With a table of at least two seats, a membership event found
\* should_step_down true and should_step_up false, and the bot left.
C15_Witness ==
    /\ max_djs >= 2
    /\ event.command \in {"add_dj", "rem_dj", "registered", "deregistered"}
    /\ StepDownSpec
    /\ ~StepUpSpec
    /\ out = <<ApiCall("remDj")>>
    /\ Cardinality(listener_ids) > 1

\* A step in which the handler func of the Dj plugin was invoked and passed
\* its guards: no argument and, where required, a moderator as sender.
Ran(func) ==
    /\ Len(invoked') = 1
    /\ invoked'[1].handler.plugin = "Dj"
    /\ invoked'[1].handler.func = func
    /\ invoked'[1].message = <<>>
RanByModerator(func) ==
    /\ Ran(func)
    /\ invoked'[1].data.senderid \in moderator_ids
SetsAndFlagsKept ==
    UNCHANGED <<dj_ids, listener_ids, moderator_ids, max_djs,
                end_song_step_down, should_auto_skip>>

\* C16: /djup from a moderator issues one join request if and only if the bot
\* is not in dj_ids and dj_ids has fewer than max_djs members, and with a full
\* table it only replies that it can not do that right now; /djdown from a
\* moderator issues one leave request if and only if the bot is in dj_ids and
\* otherwise only replies that it is not dj-ing.  Neither changes the
\* session's sets or the plugin's flags.
C16_Manual ==
    [][/\ RanByModerator("play") =>
             /\ Joins(out') <=>
                  (BotId \notin dj_ids /\ Cardinality(dj_ids) < max_djs)
             /\ Joins(out') => out' = <<ApiCall("addDj")>>
             /\ (BotId \notin dj_ids /\ Cardinality(dj_ids) >= max_djs) =>
                  out' = <<Reply("can_not_do_that_right_now", msg')>>
             /\ ~Leaves(out')
             /\ SetsAndFlagsKept
       /\ RanByModerator("stop") =>
             /\ Leaves(out') <=> BotId \in dj_ids
             /\ Leaves(out') => out' = <<ApiCall("remDj")>>
             /\ BotId \notin dj_ids =>
                  out' = <<Reply("not_currently_djing", msg')>>
             /\ ~Joins(out')
             /\ SetsAndFlagsKept]_vars

\* /djup from a moderator found the table full and was answered.
C16_Witness ==
    /\ Len(invoked) = 1
    /\ invoked[1].handler.func = "play"
    /\ msg.senderid \in moderator_ids
    /\ BotId \notin dj_ids
    /\ Cardinality(dj_ids) >= max_djs
    /\ out = <<Reply("can_not_do_that_right_now", msg)>>

Skips(o) == \E i \in 1..Len(o) : o[i] = ApiCall("skip")

\* C17: /autoskip without argument flips the auto-skip flag; it issues a
\* skip request if and only if the flag is now enabled, the bot is the playing
\* dj and dj_ids has more than one member; when the flag is now disabled it
\* sends its reply and nothing else.
C17_AutoSkip ==
    [][Ran("auto_skip") =>
          /\ should_auto_skip' = ~should_auto_skip
          /\ Skips(out') <=>
               (should_auto_skip' /\ is_playing /\ Cardinality(dj_ids) > 1)
          /\ out' = IF ~should_auto_skip' THEN <<Reply("back", msg')>>
                    ELSE IF Skips(out')
                    THEN <<Reply("keep_seat_warm", msg'), ApiCall("skip")>>
                    ELSE <<Reply("keep_seat_warm", msg')>>
          /\ UNCHANGED <<dj_ids, listener_ids, moderator_ids, max_djs,
                         end_song_step_down, currentDjId>>]_vars

\* /autoskip was enabled while the bot was playing beside another dj, and the
\* song was skipped.
C17_Witness ==
    /\ Len(invoked) = 1
    /\ invoked[1].handler.func = "auto_skip"
    /\ invoked[1].message = <<>>
    /\ should_auto_skip
    /\ is_playing
    /\ Cardinality(dj_ids) > 1
    /\ out = <<Reply("keep_seat_warm", msg), ApiCall("skip")>>

-----------------------------------------------------------------------------
(* Claims about the dispatch of chat texts (SpecDispatch) *)

\* The whitespace-separated tokens of a text, by position: a token starts at
\* a piece that is no whitespace and follows whitespace or nothing, and runs
\* up to the next whitespace.
TokenStarts(text) ==
    {i \in 1..Len(text) :
        ~IsSpace(text[i]) /\ (i = 1 \/ IsSpace(text[i - 1]))}
TokenEnd(text, i) ==
    CHOOSE j \in i..Len(text) :
        /\ \A k \in i..j : ~IsSpace(text[k])
        /\ (j = Len(text) \/ IsSpace(text[j + 1]))
TokenAt(text, n) ==
    LET i == CHOOSE s \in TokenStarts(text) :
                 Cardinality({r \in TokenStarts(text) : r < s}) = n - 1
    IN SubSeq(text, i, TokenEnd(text, i))
Tokens(text) ==
    [n \in 1..Cardinality(TokenStarts(text)) |-> TokenAt(text, n)]
\* The tokens after the first, with one space between neighbours.
RECURSIVE Spaced(_, _)
Spaced(toks, n) ==
    IF n > Len(toks) THEN <<>>
    ELSE IF n = Len(toks) THEN toks[n]
    ELSE toks[n] \o <<" ">> \o Spaced(toks, n + 1)

\* A step in which a chat text reached process_message: a private message,
\* or a room message of another user once the bot knows its own name.
Dispatched ==
    \/ event'.command = "pmmed"
    \/ event'.command = "speak" /\ username # "" /\ username # msg'.name

\* C18: for a text that reaches the dispatch, the first token is the key and
\* the other tokens joined by single spaces are the argument.  With no token
\* or a key outside the table no handler is invoked, nothing is sent and
\* nothing changes; otherwise the handler bound to the key is invoked once
\* with the argument and the event, and what it does follows that argument.
C18_Dispatch ==
    [][Dispatched =>
          LET toks == Tokens(msg'.text)
              arg == Spaced(toks, 2)
          IN IF toks = <<>> \/ KeyOf(toks[1]) \notin DOMAIN commands
             THEN /\ invoked' = <<>>
                  /\ out' = <<>>
                  /\ UNCHANGED <<dj_ids, listener_ids, moderator_ids, max_djs,
                                 username, commands, end_song_step_down,
                                 should_auto_skip, currentDjId>>
             ELSE /\ invoked' =
                       <<Invocation(commands[KeyOf(toks[1])], arg, msg')>>
                  /\ KeyOf(toks[1]) = "/autoskip" =>
                       (should_auto_skip' # should_auto_skip <=> arg = <<>>)
                  /\ (KeyOf(toks[1]) = "/help"
                        /\ arg # <<>> /\ KeyOf(arg) \notin DOMAIN commands) =>
                       out' = <<[Reply("not_a_valid_command", msg')
                                    EXCEPT !.name = arg]>>]_vars

\* A text with whitespace of both kinds and two arguments was dispatched to
\* /help with the arguments joined by one space.
C18_Witness ==
    /\ msg.text = <<" ", "/help", "\t", " ", "x", "\t", " ", "x", "\t">>
    /\ Len(invoked) = 1
    /\ invoked[1].handler = BotHandler("/help")
    /\ invoked[1].message = <<"x", " ", "x">>
    /\ invoked[1].data = msg

-----------------------------------------------------------------------------
(* Claims about faults and about djs outside the room (SpecSession) *)

\* The list us names an id that is not in S when its turn comes: an id that
\* is not in S, or one the list has named before.
NamesAbsent(us, S) ==
    \E i \in 1..Len(us) : us[i] \notin S \/ \E j \in 1..(i - 1) : us[j] = us[i]

\* C19: a removal event raises a fault exactly when it names an id that is
\* absent from its set when its turn comes.  The fault ends nothing: in a
\* state left by a fault every event can still be delivered, and the event
\* delivered next is applied to the sets as its handler applies it in any
\* other state.
C19_FaultIsolation ==
    /\ [](fault =>
            /\ ENABLED AddDj /\ ENABLED RemDj
            /\ ENABLED Registered /\ ENABLED Deregistered
            /\ ENABLED NewModerator /\ ENABLED RemModerator
            /\ ENABLED RoomChanged)
    /\ [][LET e == event' IN
          /\ e.command = "rem_dj" => (fault' <=> NamesAbsent(e.user, dj_ids))
          /\ e.command = "deregistered" =>
               (fault' <=> NamesAbsent(e.user, listener_ids))
          /\ e.command = "rem_moderator" =>
               (fault' <=> e.userid \notin moderator_ids)
          /\ e.command \in {"add_dj", "registered", "new_moderator",
                            "roomChanged", "userInfo"} => ~fault'
          /\ fault =>
               /\ e.command = "add_dj" =>
                    dj_ids' = dj_ids \cup Range(e.user)
               /\ e.command = "registered" =>
                    listener_ids' = listener_ids \cup Range(e.user)
               /\ e.command = "new_moderator" =>
                    moderator_ids' = moderator_ids \cup {e.userid}
               /\ (e.command = "rem_dj" /\ ~fault') =>
                    dj_ids' = dj_ids \ Range(e.user)
               /\ (e.command = "deregistered" /\ ~fault') =>
                    listener_ids' = listener_ids \ Range(e.user)
               /\ (e.command = "rem_moderator" /\ ~fault') =>
                    moderator_ids' = moderator_ids \ {e.userid}
               /\ e.command = "roomChanged" =>
                    /\ dj_ids' = e.djs
                    /\ listener_ids' = e.users
                    /\ moderator_ids' = e.moderator_id
                    /\ max_djs' = e.max_djs
         ]_vars

\* A removal event named an id that was not in its set, and the fault was
\* raised and caught.
C19_Witness ==
    /\ fault
    /\ event.command \in {"rem_dj", "deregistered"}
    /\ \E i \in 1..Len(event.user) :
          event.user[i] \notin dj_ids \cup listener_ids
    /\ dj_ids # {}
    /\ listener_ids # {}

\* The djs that are not in the room.
Strays == dj_ids \ listener_ids

\* C20 as stated: once dj_ids holds an id that is not in listener_ids, no
\* event other than roomChanged brings the inclusion back.
C20_Original ==
    [][(Strays # {} /\ event'.command # "roomChanged") =>
          dj_ids' \ listener_ids' # {}]_vars

\* C20, with the events that name the id: the handlers do not keep dj_ids
\* inside listener_ids.  add_dj is accepted without fault for users that are
\* not in the room and leaves listener_ids alone, and deregistered leaves
\* dj_ids alone, so a dj who leaves stays in dj_ids.  A dj that is not in the
\* room stays one through every event other than roomChanged that does not
\* name it; registered or rem_dj naming it bring the inclusion back.
C20_NotEnforced ==
    [][LET e == event' IN
       /\ e.command = "add_dj" =>
            /\ ~fault'
            /\ Range(e.user) \ listener_ids \subseteq dj_ids' \ listener_ids'
       /\ e.command = "deregistered" =>
            /\ dj_ids' = dj_ids
            /\ ~fault' => Range(e.user) \cap dj_ids
                             \subseteq dj_ids' \ listener_ids'
       /\ e.command # "roomChanged" =>
            Strays \ Range(e.user) \subseteq dj_ids' \ listener_ids'
       /\ (e.command = "registered" /\ Strays \subseteq Range(e.user)) =>
            dj_ids' \subseteq listener_ids'
       /\ (e.command = "rem_dj" /\ ~fault' /\ Strays \subseteq Range(e.user)) =>
            dj_ids' \subseteq listener_ids'
      ]_vars

\* After a snapshot, a dj left the room without a rem_dj; the event raised no
\* fault and the dj is still in dj_ids.
C20_Witness ==
    /\ event.command = "deregistered"
    /\ ~fault
    /\ max_djs # NoneVal
    /\ \E i \in 1..Len(event.user) : event.user[i] \in Strays

-----------------------------------------------------------------------------
(* Claims about /commands (SpecDjCmd) *)

\* A step in which /commands was invoked without argument.
RanCommands ==
    /\ Len(invoked') = 1
    /\ invoked'[1].handler = BotHandler("/commands")
    /\ invoked'[1].message = <<>>
\* The keys a sender is shown: all of them for a moderator, for the others
\* those whose handler does not require a moderator.
ShownTo(sender) ==
    IF sender \in moderator_ids THEN DOMAIN commands
    ELSE {k \in DOMAIN commands : ~moderator_required(commands[k])}
\* The sequence l lists the keys of S once each, in sorted order.
ListsSorted(l, S) ==
    /\ Range(l) = S
    /\ Len(l) = Cardinality(S)
    /\ \A i, j \in 1..Len(l) :
          i < j => \E a, b \in 1..Len(KeyOrder) :
                      a < b /\ KeyOrder[a] = l[i] /\ KeyOrder[b] = l[j]

\* C21: /commands sends one reply, which is a function of the command table,
\* the moderator set and the sender alone: the sorted list of the keys, without
\* the moderator commands for a sender who is no moderator.  It changes
\* neither the command table nor any session set, so a second invocation in
\* the same state sends the same reply.
C21_Commands ==
    [][RanCommands =>
          /\ Len(out') = 1
          /\ out'[1] = [Reply("available_commands", msg')
                           EXCEPT !.songs = out'[1].songs]
          /\ ListsSorted(out'[1].songs, ShownTo(msg'.senderid))
          /\ UNCHANGED <<commands, loaded_plugins, dj_ids, listener_ids,
                         moderator_ids, max_djs, username,
                         end_song_step_down, should_auto_skip, currentDjId>>
          /\ (invoked = invoked') => out' = out]_vars

\* In a moderated room a user who is no moderator asked for the commands and
\* was shown a list without /djup.
C21_Witness ==
    /\ Len(invoked) = 1
    /\ invoked[1].handler = BotHandler("/commands")
    /\ invoked[1].message = <<>>
    /\ moderator_ids # {}
    /\ msg.senderid \notin moderator_ids
    /\ Len(out) = 1
    /\ "/djup" \notin Range(out[1].songs)
    /\ "/skip" \in Range(out[1].songs)

-----------------------------------------------------------------------------
(* Claims about oscillation of the Dj plugin (SpecDj) *)

\* C25: in every state where should_step_up holds, should_step_down does not
\* hold for the same listeners and table size once the bot alone is added to
\* dj_ids; in every state where should_step_down holds, should_step_up does
\* not hold once the bot alone is removed from dj_ids.  In particular the
\* state a join or leave request of dj_update leads to calls for no request
\* in the other direction.
C25_NoOscillation ==
    /\ [](/\ should_step_up(dj_ids, listener_ids, max_djs) =>
               ~should_step_down(dj_ids \cup {BotId}, listener_ids, max_djs)
          /\ should_step_down(dj_ids, listener_ids, max_djs) =>
               ~should_step_up(dj_ids \ {BotId}, listener_ids, max_djs))
    /\ [][MembershipStep =>
            /\ Joins(out') =>
                 ~should_step_down(dj_ids' \cup {BotId}, listener_ids',
                                   max_djs')
            /\ Leaves(out') =>
                 ~should_step_up(dj_ids' \ {BotId}, listener_ids',
                                 max_djs')]_vars

\* The bot asked to join a table of three seats with one dj, where it is not
\* to step down after joining.
C25_Witness ==
    /\ should_step_up(dj_ids, listener_ids, max_djs)
    /\ Joins(out)
    /\ Cardinality(dj_ids) = 1
    /\ max_djs = 3
    /\ ~should_step_down(dj_ids \cup {BotId}, listener_ids, max_djs)

-----------------------------------------------------------------------------
(* Claims about faulting removals (SpecSession) *)

\* C27 as stated: a rem_dj or deregistered event that raises a fault leaves
\* dj_ids, listener_ids and moderator_ids exactly as they were.
C27_Original ==
    [][(event'.command \in {"rem_dj", "deregistered"} /\ fault') =>
          UNCHANGED <<dj_ids, listener_ids, moderator_ids>>]_vars

-----------------------------------------------------------------------------
(* Claims about the /plload chain (SpecLoad) *)

\* The add requests of a chain, and those answered with a failure: each
\* response is logged right after the request it answers.
AddRequests(L) == Idx(L, "req", "playlistAdd")
FailedAdds(L) ==
    {L[i].song : i \in {j \in AddRequests(L) :
                           j < Len(L) /\ L[j + 1].t = "resp" /\ ~L[j + 1].ok}}
LoadedReplies(L) == RepliesOf(L, "loaded")

\* C26 as stated: when a /plload chain has sent its final reply, the ids it
\* reports as failed to load are exactly the ids whose add request was
\* answered with a failure.
C26_Original ==
    \A s \in ChainSlots :
       LET L == log[s] IN
       (IsChain(L, "/plload") /\ LoadedReplies(L) # {}) =>
          \A i \in LoadedReplies(L) : Range(L[i].songs) = FailedAdds(L)

\* ---- overlapping chains of the Playlist plugin

\* The listing responses a step handles: the playlistAll requests it takes
\* out of the requests in flight (they hold no set object, so the renumbering
\* of objects leaves them as they are).
ListingsHandled == {r \in pending \ pending' : r.api = "playlistAll"}
\* The mirror under key n is after the step what it was before.
MirrorKept(n) ==
    /\ n \in DOMAIN playlists
    /\ heap'[playlists'[n]] = heap[playlists[n]]

\* C22 (as stated): a listing response is applied only to the mirror of the
\* playlist the listing was requested for; the mirror of every other
\* playlist is left as it was, also when the active playlist changed between
\* the request and the response.
C22_Original ==
    [][\A r \in ListingsHandled :
          \A n \in DOMAIN playlists' : n # r.name => MirrorKept(n)]_vars

\* C23 (as stated): the remove-head requests of one clear chain all name the
\* same playlist, and the 'Cleared playlist' reply of the chain names it too.
C23_Original ==
    \A s \in ChainSlots :
       LET L == log[s]
           reqs == Idx(L, "req", "playlistRemove")
       IN IsChain(L, "/plclear") =>
             /\ \A i, j \in reqs : L[i].name = L[j].name
             /\ \A i \in reqs, k \in RepliesOf(L, "cleared") : L[k].name = L[i].name

\* C24 (as stated): once the active playlist is known, its name is a key of
\* the mirror map in every reachable state.
C24_Original == playlist # NoName => HasMirror(playlist)

====
